---- MODULE Spec2Model ----
(***************************************************************************)
(* Model of the Azure OpenAI content generator of gemini-cli               *)
(* (AzureOpenAIContentGenerator, listed in src/README.md lines 372-946):   *)
(* the streaming generator generateContentStream as a state machine, and   *)
(* the pure conversions convertToGeminiResponse / convertToOpenAIMessages  *)
(* as operators applied to inputs drawn from bounded sets.                 *)
(*                                                                         *)
(* Strings are sequences of symbols.  A JavaScript `undefined` or ''       *)
(* string field that the code only ever tests for truthiness is the empty  *)
(* sequence; where the code passes the value on, `undefined` is the        *)
(* distinct value Undefined.                                               *)
(***************************************************************************)
EXTENDS Integers, Sequences, FiniteSets, TLC

(* ------------------------------ bounds -------------------------------- *)

\* Lines the server sends on one stream.
MaxLines == 4

\* Complete lines in flight (sent, not yet read): one read delivers at most
\* MaxInFlight line ends.
MaxInFlight == 2

\* Calls of onSelect after which the auth dialog is closed.
MaxSelects == 1

\* Symbols of a text with fenced blocks, and of a text without.
MaxFenced == 6

MaxBare == 5

\* Lines of a response body that is read in pieces.
MaxSplitLines == 2

(* ------------------------------ strings ------------------------------- *)

Empty == <<>>

Undefined == <<"undefined">>

\* JavaScript truthiness of an optional string.
Truthy(s) == s # Empty /\ s # Undefined

Last(s) == s[Len(s)]

Front(s) == SubSeq(s, 1, Len(s) - 1)

\* String.prototype.trim: strip whitespace symbols at both ends.
RECURSIVE TrimLeft(_)
TrimLeft(s) == IF s # <<>> /\ Head(s) = "WS" THEN TrimLeft(Tail(s)) ELSE s

RECURSIVE TrimRight(_)
TrimRight(s) == IF s # <<>> /\ Last(s) = "WS" THEN TrimRight(Front(s)) ELSE s

Trim(s) == TrimRight(TrimLeft(s))

\* String.prototype.split('\n'): the segments between newline symbols, one
\* more than there are newlines.
RECURSIVE SplitNL(_)
SplitNL(s) ==
    IF \E i \in 1..Len(s) : s[i] = "NL"
    THEN LET i == CHOOSE j \in 1..Len(s) :
                      s[j] = "NL" /\ \A k \in 1..(j - 1) : s[k] # "NL"
         IN  <<SubSeq(s, 1, i - 1)>> \o SplitNL(SubSeq(s, i + 1, Len(s)))
    ELSE <<s>>

(* ------------------------- JSON argument strings ---------------------- *)
\* An argument string is a sequence of the symbols "{", "m" (one member,
\* `"k":1`) and "}".  JSON.parse accepts `{}` and `{"k":1}` only: two
\* members without a separating comma, an unclosed or unopened brace and
\* the empty string are syntax errors.

JSONValid(s) ==
    /\ Len(s) \in {2, 3}
    /\ s[1] = "{"
    /\ s[Len(s)] = "}"
    /\ Len(s) = 3 => s[2] = "m"

\* The decoded object: the set of its members.
JSONParse(s) == {s[i] : i \in 2..(Len(s) - 1)}

\* JSON.parse(args || '{}') of lines 549, 844: whether it throws, its value.
ArgsThrow(args) == Truthy(args) /\ ~JSONValid(args)

ArgsValue(args) == IF Truthy(args) THEN JSONParse(args) ELSE {}

(* --------------------------- stream events ---------------------------- *)
\* One tool-call delta of a stream chunk (OpenAILikeStreamChunk).  index is
\* <<>> when the field is absent.  A delta without a `function` object is
\* the delta whose name and arguments are both empty: the code reads
\* neither in that case.
Delta(index, id, type, name, arguments) ==
    [index |-> index, id |-> id, type |-> type, name |-> name,
     arguments |-> arguments]

\* The parsed payload of a `data: ` line: whether choices[0] exists, and its
\* delta.content, delta.tool_calls and finish_reason ("null" is null).
Chunk(hasChoice, content, tool_calls, finish_reason) ==
    [hasChoice |-> hasChoice, content |-> content, tool_calls |-> tool_calls,
     finish_reason |-> finish_reason]

\* The payloads the server can send, by the symbol that stands for their
\* JSON text on the wire.
FrameNames == {"f1", "f2", "f3", "f4", "f5", "f6", "f7"}

Frame(f) ==
    CASE f = "f1" -> Chunk(TRUE, <<"a">>, <<>>, "null")
      [] f = "f2" -> Chunk(TRUE, <<"b">>, <<>>, "stop")
      [] f = "f3" -> Chunk(TRUE, Empty,
                           <<Delta(<<>>, <<"i">>, <<"function">>, <<"f">>, <<"{">>)>>,
                           "null")
      [] f = "f4" -> Chunk(TRUE, Empty,
                           <<Delta(<<0>>, Empty, Empty, <<"g">>, <<"m">>),
                             Delta(<<1>>, Empty, Empty, <<"f">>, Empty)>>,
                           "null")
      [] f = "f5" -> Chunk(TRUE, Empty,
                           <<Delta(<<0>>, <<"j">>, <<"function">>, Empty, <<"}">>)>>,
                           "null")
      [] f = "f6" -> Chunk(TRUE, Empty, <<>>, "tool_calls")
      [] f = "f7" -> Chunk(FALSE, Empty, <<>>, "null")

\* The lines of a stream: data lines carrying a payload, the `data: [DONE]`
\* line, a whitespace-only line and a data line whose payload is not JSON.
Lines ==
    {<<"D", f>> : f \in FrameNames} \cup {<<"D", "DONE">>, <<"WS">>, <<"D", "x">>}

\* JSON.parse(jsonStr) of line 760 succeeds on the text of one payload.
ChunkValid(jsonStr) == Len(jsonStr) = 1 /\ jsonStr[1] \in FrameNames

(* ----------------------- host responses (Gemini) ---------------------- *)

TextPart(t) ==
    [kind |-> "text", text |-> t, id |-> Empty, name |-> Empty, args |-> {}]

FunctionCallPart(id, name, args) ==
    [kind |-> "functionCall", text |-> Empty, id |-> id, name |-> name,
     args |-> args]

\* A GenerateContentResponse with one candidate.
Response(parts, finishReason) == [parts |-> parts, finishReason |-> finishReason]

(* ------------------- generateContentStream: helpers ------------------- *)
\* accumulatedToolCalls is a Map: here the sequence of its entries in
\* insertion order, each entry the key `index` with the record's fields
\* (an unset field is Empty; the code never stores '').

NewToolCall(index) ==
    [index |-> index, id |-> Empty, type |-> Empty, name |-> Empty,
     arguments |-> Empty]

HasIndex(atc, index) == \E i \in 1..Len(atc) : atc[i].index = index

\* MergeFields with the argument fragment put before the accumulated
\* arguments instead of after them.
MergeFields_prependArguments(acc, d) ==
    [acc EXCEPT
        !.id = IF Truthy(d.id) THEN d.id ELSE @,
        !.type = IF Truthy(d.type) THEN d.type ELSE @,
        !.name = IF Truthy(d.name) THEN @ \o d.name ELSE @,
        !.arguments = IF Truthy(d.arguments) THEN d.arguments \o @ ELSE @]

\* MergeFields with the name fragment assigned instead of appended.
MergeFields_assignName(acc, d) ==
    [acc EXCEPT
        !.id = IF Truthy(d.id) THEN d.id ELSE @,
        !.type = IF Truthy(d.type) THEN d.type ELSE @,
        !.name = IF Truthy(d.name) THEN d.name ELSE @,
        !.arguments = IF Truthy(d.arguments) THEN @ \o d.arguments ELSE @]

\* Lines 796-816: the fields of one accumulated record after one delta.
MergeFields(acc, d) ==
    [acc EXCEPT
        !.id = IF Truthy(d.id) THEN d.id ELSE @,
        !.type = IF Truthy(d.type) THEN d.type ELSE @,
        !.name = IF Truthy(d.name) THEN @ \o d.name ELSE @,
        !.arguments = IF Truthy(d.arguments) THEN @ \o d.arguments ELSE @]

\* Lines 788-816: one tool-call delta merged into the map.
MergeDelta(atc, d) ==
    LET index == IF d.index = <<>> THEN 0 ELSE d.index[1]
        atc1 == IF HasIndex(atc, index) THEN atc
                ELSE Append(atc, NewToolCall(index))
    IN  [i \in 1..Len(atc1) |->
            IF atc1[i].index = index THEN MergeFields(atc1[i], d) ELSE atc1[i]]

\* Lines 786-818: every delta of the chunk, in order.
RECURSIVE MergeToolCalls(_, _)
MergeToolCalls(atc, ds) ==
    IF ds = <<>> THEN atc ELSE MergeToolCalls(MergeDelta(atc, Head(ds)), Tail(ds))

\* Lines 835-838: the filter of the final response.
Complete(tc) == Truthy(tc.id) /\ Truthy(tc.name)

RECURSIVE CompleteCalls(_)
CompleteCalls(atc) ==
    IF atc = <<>> THEN <<>>
    ELSE IF Complete(Head(atc)) THEN <<Head(atc)>> \o CompleteCalls(Tail(atc))
    ELSE CompleteCalls(Tail(atc))

\* Lines 843-845: JSON.parse throws for one of the calls that pass the filter.
FinalThrows(atc) ==
    \E i \in 1..Len(atc) : Complete(atc[i]) /\ ArgsThrow(atc[i].arguments)

\* Lines 824-862: the final response when tool calls were accumulated.
ToolCallResponse(atc, ac, finish_reason) ==
    LET calls == CompleteCalls(atc)
        functionCalls ==
            [i \in 1..Len(calls) |->
                FunctionCallPart(calls[i].id, calls[i].name,
                                 ArgsValue(calls[i].arguments))]
    IN  Response((IF Truthy(ac) THEN <<TextPart(ac)>> ELSE <<>>) \o functionCalls,
                 finish_reason)

\* Lines 890-901: the final response without tool calls.
EmptyResponse(finish_reason) == Response(<<>>, finish_reason)

\* ContentResponse that carries the finish reason without the delta's text.
ContentResponse_noText(choice) == Response(<<>>, choice.finish_reason)

\* Lines 769-780: the incremental response of one text delta.
ContentResponse(choice) == Response(<<TextPart(choice.content)>>, choice.finish_reason)

(* --------------------------- state variables -------------------------- *)

VARIABLES
    srv,                    \* response body: text sent and not yet read
    sent,                   \* lines the server has sent
    buffer,                 \* `buffer` (line 729)
    lines,                  \* lines of the current read still to process (line 753)
    cur,                    \* payload of the line being processed (`choice`)
    accumulatedToolCalls,   \* line 734
    accumulatedContent,     \* line 742
    pc,                     \* where the generator is suspended
    emitted,                \* responses yielded to the consumer, in order
    released,               \* calls of reader.releaseLock()
    thrown,                 \* the generator rejected a pull with an error
    exit,                   \* how the generator finished
    hist,                   \* payloads whose choice was processed (line 763)
    nFrames,                \* complete choice-bearing data lines read so far
    doneSeen,               \* a `data: [DONE]` line was processed
    postDone,               \* a choice was processed after a `data: [DONE]` line
    finals,                 \* final responses yielded (lines 887, 903)
    finishSeen,             \* a choice with a finish reason reached line 821
    argsErr,                \* JSON.parse of accumulated arguments threw
    warned,                 \* console.warn of line 909 was called
    req,                    \* input of a conversion
    res                     \* result of a conversion

streamVars ==
    <<srv, sent, buffer, lines, cur, accumulatedToolCalls,
      accumulatedContent, pc, emitted, released, thrown, exit, hist, nFrames,
      doneSeen, postDone, finals, finishSeen, argsErr, warned>>

vars == <<streamVars, req, res>>

(* --------------------- generateContentStream: body -------------------- *)
\* The generator runs from a resumption to its next suspension.  Its local
\* state travels in a record st; st.out says where it suspends: at the yield
\* of an incremental response, at the yield of the final response, or at
\* reader.read().  st.emit is the response yielded, if any.

GenState ==
    [lines |-> lines, cur |-> cur, atc |-> accumulatedToolCalls,
     ac |-> accumulatedContent, hist |-> hist, doneSeen |-> doneSeen,
     postDone |-> postDone, finals |-> finals,
     finishSeen |-> finishSeen, argsErr |-> argsErr, warned |-> warned,
     out |-> "read", emit |-> <<>>]

RECURSIVE RunLines(_)
RECURSIVE ProcessLine(_)
RECURSIVE AfterContent(_)

\* AfterContent that yields the calls accumulated so far after the tool-call
\* deltas of a choice without a finish reason.
AfterContent_emitsPartial(st) ==
    LET choice == Frame(st.cur)
        st1 == [st EXCEPT !.atc = MergeToolCalls(@, choice.tool_calls)]
    IN  IF choice.finish_reason # "null"
        THEN IF Len(st1.atc) > 0
             THEN IF FinalThrows(st1.atc)
                  THEN RunLines([st1 EXCEPT !.finishSeen = TRUE,
                                            !.argsErr = TRUE,
                                            !.warned = TRUE])
                  ELSE [st1 EXCEPT
                           !.finishSeen = TRUE,
                           !.finals = @ + 1,
                           !.out = "yield_final",
                           !.emit = <<ToolCallResponse(st1.atc, st1.ac,
                                                       choice.finish_reason)>>]
             ELSE [st1 EXCEPT
                      !.finishSeen = TRUE,
                      !.finals = @ + 1,
                      !.out = "yield_final",
                      !.emit = <<EmptyResponse(choice.finish_reason)>>]
        ELSE IF choice.tool_calls # <<>>
        THEN [st1 EXCEPT
                 !.out = "yield_content",
                 !.emit = <<ToolCallResponse(st1.atc, <<>>, "null")>>]
        ELSE RunLines(st1)

\* Lines 786-906: the rest of a choice after its text delta: merge the
\* tool-call deltas, then the finish check.  An exception of JSON.parse
\* (line 843) is caught at line 908: the loop goes on with the next line.
AfterContent(st) ==
    LET choice == Frame(st.cur)
        st1 == [st EXCEPT !.atc = MergeToolCalls(@, choice.tool_calls)]
    IN  IF choice.finish_reason # "null"
        THEN IF Len(st1.atc) > 0
             THEN IF FinalThrows(st1.atc)
                  THEN RunLines([st1 EXCEPT !.finishSeen = TRUE,
                                            !.argsErr = TRUE,
                                            !.warned = TRUE])
                  ELSE [st1 EXCEPT
                           !.finishSeen = TRUE,
                           !.finals = @ + 1,
                           !.out = "yield_final",
                           !.emit = <<ToolCallResponse(st1.atc, st1.ac,
                                                       choice.finish_reason)>>]
             ELSE [st1 EXCEPT
                      !.finishSeen = TRUE,
                      !.finals = @ + 1,
                      !.out = "yield_final",
                      !.emit = <<EmptyResponse(choice.finish_reason)>>]
        ELSE RunLines(st1)

\* ProcessLine with `break` for `continue` in the catch of a payload that is
\* not JSON: the rest of the lines of the read is dropped.
ProcessLine_malformedBreaks(st) ==
    LET trimmed == Trim(Head(st.lines))
        rest == [st EXCEPT !.lines = Tail(@)]
    IN  IF trimmed = <<>> THEN RunLines(rest)
        ELSE IF trimmed = <<"D", "DONE">>
        THEN RunLines([rest EXCEPT !.doneSeen = TRUE])
        ELSE IF Head(trimmed) = "D"
        THEN LET jsonStr == Tail(trimmed)
             IN  IF ~ChunkValid(jsonStr)
                 THEN [rest EXCEPT !.warned = TRUE, !.lines = <<>>,
                                   !.out = "read"]
                 ELSE IF ~Frame(jsonStr[1]).hasChoice THEN RunLines(rest)
                 ELSE LET choice == Frame(jsonStr[1])
                          st1 == [rest EXCEPT !.cur = jsonStr[1],
                                              !.hist = Append(@, jsonStr[1]),
                                              !.postDone = @ \/ rest.doneSeen]
                      IN  IF Truthy(choice.content)
                          THEN [st1 EXCEPT
                                   !.ac = @ \o choice.content,
                                   !.out = "yield_content",
                                   !.emit = <<ContentResponse(choice)>>]
                          ELSE AfterContent(st1)
        ELSE RunLines(rest)

\* Lines 754-911: the first of st.lines.
ProcessLine(st) ==
    LET trimmed == Trim(Head(st.lines))
        rest == [st EXCEPT !.lines = Tail(@)]
    IN  IF trimmed = <<>> THEN RunLines(rest)
        ELSE IF trimmed = <<"D", "DONE">>
        THEN RunLines([rest EXCEPT !.doneSeen = TRUE])
        ELSE IF Head(trimmed) = "D"
        THEN LET jsonStr == Tail(trimmed)
             IN  IF ~ChunkValid(jsonStr)
                 THEN RunLines([rest EXCEPT !.warned = TRUE])
                 ELSE IF ~Frame(jsonStr[1]).hasChoice THEN RunLines(rest)
                 ELSE LET choice == Frame(jsonStr[1])
                          st1 == [rest EXCEPT !.cur = jsonStr[1],
                                              !.hist = Append(@, jsonStr[1]),
                                              !.postDone = @ \/ rest.doneSeen]
                      IN  IF Truthy(choice.content)
                          THEN [st1 EXCEPT
                                   !.ac = @ \o choice.content,
                                   !.out = "yield_content",
                                   !.emit = <<ContentResponse(choice)>>]
                          ELSE AfterContent(st1)
        ELSE RunLines(rest)

\* RunLines with `break` for `continue` at a `data: [DONE]` line: the rest of
\* the lines of the read is dropped.
RunLines_breakAtDone(st) ==
    IF st.lines = <<>> THEN [st EXCEPT !.out = "read"]
    ELSE IF Trim(Head(st.lines)) = <<"D", "DONE">>
    THEN [st EXCEPT !.lines = <<>>, !.doneSeen = TRUE, !.out = "read"]
    ELSE ProcessLine(st)

\* Lines 753-912: the for loop over the lines of one read; when they are
\* exhausted the while loop reads again.
RunLines(st) ==
    IF st.lines = <<>> THEN [st EXCEPT !.out = "read"] ELSE ProcessLine(st)

\* The generator's state after it ran to the suspension described by st.
Suspend(st) ==
    /\ lines' = st.lines
    /\ cur' = st.cur
    /\ accumulatedToolCalls' = st.atc
    /\ accumulatedContent' = st.ac
    /\ hist' = st.hist
    /\ doneSeen' = st.doneSeen
    /\ postDone' = st.postDone
    /\ finals' = st.finals
    /\ finishSeen' = st.finishSeen
    /\ argsErr' = st.argsErr
    /\ warned' = st.warned
    /\ emitted' = emitted \o st.emit
    /\ pc' = IF st.out = "read" THEN "reading" ELSE st.out

\* Finally with the release after the loop instead of in a finally block:
\* only the exits that fall out of the loop release the reader.
Finally_afterLoop(how) ==
    /\ released' = IF how \in {"eof", "finish"} THEN released + 1 ELSE released
    /\ pc' = "done"
    /\ exit' = how

\* Line 915, reached from every exit of the try block (lines 744-916).
Finally(how) ==
    /\ released' = released + 1
    /\ pc' = "done"
    /\ exit' = how

(* -------------------- generateContentStream: actions ------------------ *)

\* Whether a complete line is a data line whose payload has a choice.
IsFrameLine(line) ==
    LET trimmed == Trim(line)
    IN  /\ trimmed # <<>>
        /\ Head(trimmed) = "D"
        /\ ChunkValid(Tail(trimmed))
        /\ Frame(trimmed[2]).hasChoice

RECURSIVE CountFrames(_)
CountFrames(ls) ==
    IF ls = <<>> THEN 0
    ELSE (IF IsFrameLine(Head(ls)) THEN 1 ELSE 0) + CountFrames(Tail(ls))

RECURSIVE CountNL(_)
CountNL(s) ==
    IF s = <<>> THEN 0
    ELSE (IF Head(s) = "NL" THEN 1 ELSE 0) + CountNL(Tail(s))

\* After generateContentStream returned the generator (lines 727-742, 919):
\* the reader is acquired, nothing has run.
Init ==
    /\ srv = <<>>
    /\ sent = 0
    /\ buffer = <<>>
    /\ lines = <<>>
    /\ cur = ""
    /\ accumulatedToolCalls = <<>>
    /\ accumulatedContent = <<>>
    /\ pc = "start"
    /\ emitted = <<>>
    /\ released = 0
    /\ thrown = FALSE
    /\ exit = "none"
    /\ hist = <<>>
    /\ nFrames = 0
    /\ doneSeen = FALSE
    /\ postDone = FALSE
    /\ finals = 0
    /\ finishSeen = FALSE
    /\ argsErr = FALSE
    /\ warned = FALSE
    /\ req = <<>>
    /\ res = <<>>

\* The consumer's first next(): the body runs to its first reader.read()
\* (lines 744-746).
Start ==
    /\ pc = "start"
    /\ pc' = "reading"
    /\ UNCHANGED <<srv, sent, buffer, lines, cur, accumulatedToolCalls,
                   accumulatedContent, emitted, released, thrown, exit, hist,
                   nFrames, doneSeen, postDone, finals, finishSeen, argsErr, warned, req, res>>

\* The server writes one more newline-terminated line to the body while the
\* generator waits for data.
ServerSend(line) ==
    /\ pc = "reading"
    /\ sent < MaxLines
    /\ CountNL(srv) < MaxInFlight
    /\ srv' = srv \o line \o <<"NL">>
    /\ sent' = sent + 1
    /\ UNCHANGED <<buffer, lines, cur, accumulatedToolCalls,
                   accumulatedContent, pc, emitted, released, thrown, exit,
                   hist, nFrames, doneSeen, postDone, finals, finishSeen, argsErr, warned,
                   req, res>>

\* reader.read() resolves with the next n symbols of the body (lines
\* 746-753): a chunk ends anywhere.  The lines the chunk completes are
\* processed up to the next suspension.
ReadChunk(n) ==
    /\ pc = "reading"
    /\ n \in 1..Len(srv)
    /\ \E parts \in {SplitNL(buffer \o SubSeq(srv, 1, n))} :
          /\ buffer' = Last(parts)
          /\ nFrames' = nFrames + CountFrames(Front(parts))
          /\ \E st \in {RunLines([GenState EXCEPT !.lines = Front(parts)])} :
                Suspend(st)
    /\ srv' = SubSeq(srv, n + 1, Len(srv))
    /\ UNCHANGED <<sent, released, thrown, exit, req, res>>

\* reader.read() resolves with done (line 747): the server ended the body
\* and all of it was read.  break, then finally.
ReadDone ==
    /\ pc = "reading"
    /\ srv = <<>>
    /\ Finally("eof")
    /\ UNCHANGED <<srv, sent, buffer, lines, cur, accumulatedToolCalls,
                   accumulatedContent, emitted, thrown, hist, nFrames,
                   doneSeen, postDone, finals, finishSeen, argsErr, warned, req, res>>

\* reader.read() rejects (network error, or the abort signal of line 713):
\* the error leaves the try block through finally and reaches the consumer.
ReadError ==
    /\ pc = "reading"
    /\ Finally("error")
    /\ thrown' = TRUE
    /\ UNCHANGED <<srv, sent, buffer, lines, cur, accumulatedToolCalls,
                   accumulatedContent, emitted, hist, nFrames, doneSeen, postDone, finals,
                   finishSeen, argsErr, warned, req, res>>

\* next() after an incremental response (line 782): the choice's tool-call
\* deltas and finish check, then the following lines.
ResumeContent ==
    /\ pc = "yield_content"
    /\ \E st \in {AfterContent(GenState)} : Suspend(st)
    /\ UNCHANGED <<srv, sent, buffer, released, thrown, exit, nFrames,
                   req, res>>

\* next() after the final response (lines 887, 903): `return` at line 905.
ResumeFinal ==
    /\ pc = "yield_final"
    /\ Finally("finish")
    /\ UNCHANGED <<srv, sent, buffer, lines, cur, accumulatedToolCalls,
                   accumulatedContent, emitted, thrown, hist, nFrames,
                   doneSeen, postDone, finals, finishSeen, argsErr, warned, req, res>>

\* The consumer's return() (a `break` out of for await) while the generator
\* is suspended at a yield: the return completion runs the finally block.
ConsumerReturn ==
    /\ pc \in {"yield_content", "yield_final"}
    /\ Finally("return")
    /\ UNCHANGED <<srv, sent, buffer, lines, cur, accumulatedToolCalls,
                   accumulatedContent, emitted, thrown, hist, nFrames,
                   doneSeen, postDone, finals, finishSeen, argsErr, warned, req, res>>

\* return() on the generator before its first next(): the generator
\* completes without running any of its body.
ReturnBeforeStart ==
    /\ pc = "start"
    /\ pc' = "done"
    /\ exit' = "unstarted"
    /\ UNCHANGED <<srv, sent, buffer, lines, cur, accumulatedToolCalls,
                   accumulatedContent, emitted, released, thrown, hist, nFrames,
                   doneSeen, postDone, finals, finishSeen, argsErr, warned, req, res>>

Next ==
    \/ Start
    \/ \E line \in Lines : ServerSend(line)
    \/ \E n \in 1..Len(srv) : ReadChunk(n)
    \/ ReadDone
    \/ ReadError
    \/ ResumeContent
    \/ ResumeFinal
    \/ ConsumerReturn
    \/ ReturnBeforeStart

Spec == Init /\ [][Next]_vars

(* ------------- generateContent / convertToGeminiResponse ------------- *)

\* Tool calls of one choice of a wire response.
MaxToolCalls == 2

\* Largest token counter of a wire response.
MaxTokens == 1

Ids == {<<"i">>, <<"j">>}

ArgumentStrings == {Empty, <<"{", "}">>, <<"{", "m", "}">>, <<"{", "m">>}

\* choices[k].message.tool_calls[k] of OpenAILikeResponse.
WireToolCalls == [id : Ids, name : {<<"f">>}, arguments : ArgumentStrings]

SeqsUpTo(S, n) == UNION {[1..k -> S] : k \in 0..n}

\* choices[k] of OpenAILikeResponse: message.content (Empty is null),
\* message.tool_calls (<<>> is absent or empty), finish_reason.
WireChoices ==
    [content : {Empty, <<"a">>},
     tool_calls : SeqsUpTo(WireToolCalls, MaxToolCalls),
     finish_reason : {"stop"}]

WireUsages ==
    [prompt_tokens : 0..MaxTokens, completion_tokens : 0..MaxTokens,
     total_tokens : 0..MaxTokens]

\* What fetch resolves with: the status (ok) and the body (OpenAILikeResponse).
WireResponses ==
    [ok : BOOLEAN, choices : SeqsUpTo(WireChoices, 1), usage : WireUsages]

\* The outcome of an async call: a value, or a rejection with an error.
Resolved(value) == [kind |-> "ok", value |-> value]

Rejected(error) == [kind |-> "error", error |-> error]

Pending == [kind |-> "pending"]

\* ConvertToGeminiResponse that pushes the text part of a response with tool
\* calls whether or not the content is empty.
ConvertToGeminiResponse_textAlways(response) ==
    IF response.choices = <<>>
    THEN Rejected("No choices in OpenAI-like API response")
    ELSE LET choice == response.choices[1]
         IN  IF Len(choice.tool_calls) > 0
             THEN IF \E i \in 1..Len(choice.tool_calls) :
                         ArgsThrow(choice.tool_calls[i].arguments)
                  THEN Rejected("SyntaxError")
                  ELSE Resolved(
                         [parts |->
                             <<TextPart(choice.content)>>
                             \o [i \in 1..Len(choice.tool_calls) |->
                                   FunctionCallPart(
                                       choice.tool_calls[i].id,
                                       choice.tool_calls[i].name,
                                       ArgsValue(choice.tool_calls[i].arguments))],
                          finishReason |-> choice.finish_reason,
                          usageMetadata |-> {}])
             ELSE Resolved(
                    [parts |-> <<TextPart(choice.content)>>,
                     finishReason |-> choice.finish_reason,
                     usageMetadata |->
                        {[promptTokenCount |-> response.usage.prompt_tokens,
                          candidatesTokenCount |-> response.usage.completion_tokens,
                          totalTokenCount |-> response.usage.total_tokens]}])

\* Lines 525-603.  usageMetadata is the set of the values of the optional
\* field: empty when the field is not set.
ConvertToGeminiResponse(response) ==
    IF response.choices = <<>>
    THEN Rejected("No choices in OpenAI-like API response")
    ELSE LET choice == response.choices[1]
         IN  IF Len(choice.tool_calls) > 0
             THEN IF \E i \in 1..Len(choice.tool_calls) :
                         ArgsThrow(choice.tool_calls[i].arguments)
                  THEN Rejected("SyntaxError")
                  ELSE Resolved(
                         [parts |->
                             (IF Truthy(choice.content)
                              THEN <<TextPart(choice.content)>> ELSE <<>>)
                             \o [i \in 1..Len(choice.tool_calls) |->
                                   FunctionCallPart(
                                       choice.tool_calls[i].id,
                                       choice.tool_calls[i].name,
                                       ArgsValue(choice.tool_calls[i].arguments))],
                          finishReason |-> choice.finish_reason,
                          usageMetadata |-> {}])
             ELSE Resolved(
                    [parts |-> <<TextPart(choice.content)>>,
                     finishReason |-> choice.finish_reason,
                     usageMetadata |->
                        {[promptTokenCount |-> response.usage.prompt_tokens,
                          candidatesTokenCount |-> response.usage.completion_tokens,
                          totalTokenCount |-> response.usage.total_tokens]}])

\* The stream variables of a behaviour that runs no stream.
NoStream ==
    /\ srv = <<>>
    /\ sent = 0
    /\ buffer = <<>>
    /\ lines = <<>>
    /\ cur = ""
    /\ accumulatedToolCalls = <<>>
    /\ accumulatedContent = <<>>
    /\ pc = "none"
    /\ emitted = <<>>
    /\ released = 0
    /\ thrown = FALSE
    /\ exit = "none"
    /\ hist = <<>>
    /\ nFrames = 0
    /\ doneSeen = FALSE
    /\ postDone = FALSE
    /\ finals = 0
    /\ finishSeen = FALSE
    /\ argsErr = FALSE
    /\ warned = FALSE

\* generateContent has sent its request (lines 605-651); req is what the
\* server answers.
InitResp ==
    /\ NoStream
    /\ req \in WireResponses
    /\ res = Pending

\* Lines 653-658: a non-2xx status rejects.
GenerateContentHttpError ==
    /\ res = Pending
    /\ ~req.ok
    /\ res' = Rejected("OpenAI-like API error")
    /\ UNCHANGED <<streamVars, req>>

\* Lines 660-661: the body is converted.
GenerateContent ==
    /\ res = Pending
    /\ req.ok
    /\ res' = ConvertToGeminiResponse(req)
    /\ UNCHANGED <<streamVars, req>>

NextResp ==
    \/ GenerateContentHttpError
    \/ GenerateContent

SpecResp == InitResp /\ [][NextResp]_vars

(* ---------------------- convertToOpenAIMessages ---------------------- *)

\* Turns of a conversation.
MaxTurns == 2

\* Parts of a conversation, over all its turns.
MaxParts == 3

\* content: null of a wire message.
Null == <<"null">>

\* A field a wire message does not have.
Absent == <<"absent">>

\* A functionResponse part of a turn; args holds its `response` payload.
FunctionResponsePart(id, name, response) ==
    [kind |-> "functionResponse", text |-> Empty, id |-> id, name |-> name,
     args |-> response]

\* The parts a turn is made of.  The id of a function call or a function
\* response is optional: Undefined when absent.
ContentParts ==
    {TextPart(<<"a">>),
     FunctionCallPart(<<"i">>, <<"f">>, {"m"}),
     FunctionCallPart(Undefined, <<"f">>, {}),
     FunctionResponsePart(<<"i">>, <<"f">>, {"m"}),
     FunctionResponsePart(Undefined, <<"f">>, {})}

Roles == {"user", "model"}

\* Values of Date.now(); the clock does not advance within one conversion.
Times == {"t1", "t2"}

\* JSON.stringify of an object with at most one member.
Stringify(obj) ==
    <<"{">> \o (IF obj = {} THEN <<>> ELSE <<CHOOSE m \in obj : TRUE>>) \o <<"}">>

\* The decimal text of a small number.
NumStr(n) == <<"0", "1", "2", "3", "4", "5", "6", "7", "8", "9">>[n + 1]

\* The template `call_${Date.now()}_${index}` of line 418.
SyntheticId(now, index) == <<"call_", now, "_", NumStr(index)>>

\* An OpenAILikeMessage.
Message(role, content, tool_calls, tool_call_id) ==
    [role |-> role, content |-> content, tool_calls |-> tool_calls,
     tool_call_id |-> tool_call_id]

IsFunctionCall(part) == part.kind = "functionCall"

IsFunctionResponse(part) == part.kind = "functionResponse"

IsText(part) == part.kind = "text"

\* Array.prototype.join with separator '': plain concatenation.
RECURSIVE JoinNL_concat(_)
JoinNL_concat(texts) ==
    IF texts = <<>> THEN <<>> ELSE Head(texts) \o JoinNL_concat(Tail(texts))

\* textParts.map(part => part.text).join('\n') of lines 426-428, 445-447.
RECURSIVE JoinNL(_)
JoinNL(texts) ==
    IF texts = <<>> THEN <<>>
    ELSE IF Len(texts) = 1 THEN Head(texts)
    ELSE Head(texts) \o <<"NL">> \o JoinNL(Tail(texts))

\* ConvertContent that pushes one message per text part of a turn without
\* function calls and function responses, instead of one for the turn.
ConvertContent_messagePerTextPart(content, now) ==
    LET role == IF content.role = "model" THEN "assistant" ELSE content.role
        parts == content.parts
        functionCalls == SelectSeq(parts, IsFunctionCall)
        functionResponses == SelectSeq(parts, IsFunctionResponse)
        textParts == SelectSeq(parts, IsText)
        combinedText == JoinNL([i \in 1..Len(textParts) |-> textParts[i].text])
    IN  IF Len(functionCalls) > 0
        THEN <<Message(
                 role,
                 IF Truthy(combinedText) THEN combinedText ELSE Null,
                 [i \in 1..Len(functionCalls) |->
                     [id |-> IF Truthy(functionCalls[i].id)
                             THEN functionCalls[i].id
                             ELSE SyntheticId(now, i - 1),
                      type |-> "function",
                      name |-> functionCalls[i].name,
                      arguments |-> Stringify(functionCalls[i].args)]],
                 Absent)>>
        ELSE IF Len(functionResponses) > 0
        THEN [i \in 1..Len(functionResponses) |->
                 Message("tool", Stringify(functionResponses[i].args), <<>>,
                         functionResponses[i].id)]
        ELSE [i \in 1..Len(textParts) |->
                 Message(role, textParts[i].text, <<>>, Absent)]

\* ConvertContent that pushes a tool message for the first function response
\* of a turn only.
ConvertContent_firstResponseOnly(content, now) ==
    LET role == IF content.role = "model" THEN "assistant" ELSE content.role
        parts == content.parts
        functionCalls == SelectSeq(parts, IsFunctionCall)
        functionResponses == SelectSeq(parts, IsFunctionResponse)
        textParts == SelectSeq(parts, IsText)
        combinedText == JoinNL([i \in 1..Len(textParts) |-> textParts[i].text])
    IN  IF Len(functionCalls) > 0
        THEN <<Message(
                 role,
                 IF Truthy(combinedText) THEN combinedText ELSE Null,
                 [i \in 1..Len(functionCalls) |->
                     [id |-> IF Truthy(functionCalls[i].id)
                             THEN functionCalls[i].id
                             ELSE SyntheticId(now, i - 1),
                      type |-> "function",
                      name |-> functionCalls[i].name,
                      arguments |-> Stringify(functionCalls[i].args)]],
                 Absent)>>
        ELSE IF Len(functionResponses) > 0
        THEN <<Message("tool", Stringify(functionResponses[1].args), <<>>,
                       functionResponses[1].id)>>
        ELSE IF Len(textParts) > 0
        THEN <<Message(role, combinedText, <<>>, Absent)>>
        ELSE <<>>

\* Lines 389-452: the messages pushed for one turn.
ConvertContent(content, now) ==
    LET role == IF content.role = "model" THEN "assistant" ELSE content.role
        parts == content.parts
        functionCalls == SelectSeq(parts, IsFunctionCall)
        functionResponses == SelectSeq(parts, IsFunctionResponse)
        textParts == SelectSeq(parts, IsText)
        combinedText == JoinNL([i \in 1..Len(textParts) |-> textParts[i].text])
    IN  IF Len(functionCalls) > 0
        THEN <<Message(
                 role,
                 IF Truthy(combinedText) THEN combinedText ELSE Null,
                 [i \in 1..Len(functionCalls) |->
                     [id |-> IF Truthy(functionCalls[i].id)
                             THEN functionCalls[i].id
                             ELSE SyntheticId(now, i - 1),
                      type |-> "function",
                      name |-> functionCalls[i].name,
                      arguments |-> Stringify(functionCalls[i].args)]],
                 Absent)>>
        ELSE IF Len(functionResponses) > 0
        THEN [i \in 1..Len(functionResponses) |->
                 Message("tool", Stringify(functionResponses[i].args), <<>>,
                         functionResponses[i].id)]
        ELSE IF Len(textParts) > 0
        THEN <<Message(role, combinedText, <<>>, Absent)>>
        ELSE <<>>

\* Lines 386-456.
RECURSIVE ConvertToOpenAIMessages(_, _)
ConvertToOpenAIMessages(contents, now) ==
    IF contents = <<>> THEN <<>>
    ELSE ConvertContent(Head(contents), now)
         \o ConvertToOpenAIMessages(Tail(contents), now)

\* The parts of a conversation, over all its turns.
RECURSIVE PartCount(_)
PartCount(contents) ==
    IF contents = <<>> THEN 0
    ELSE Len(Head(contents).parts) + PartCount(Tail(contents))

\* The host starts a conversation; req.contents is its history, which a
\* caller passes to the generator (lines 609, 667, 925).
InitMsgs ==
    /\ NoStream
    /\ req \in [contents : {<<>>}, now : Times]
    /\ res = Pending

\* The host opens a turn of the conversation.
AddTurn(role) ==
    /\ res = Pending
    /\ Len(req.contents) < MaxTurns
    /\ req' = [req EXCEPT !.contents = Append(@, [role |-> role, parts |-> <<>>])]
    /\ UNCHANGED <<streamVars, res>>

\* The host adds a part to the last turn of the conversation.
AddPart(part) ==
    /\ res = Pending
    /\ req.contents # <<>>
    /\ PartCount(req.contents) < MaxParts
    /\ req' = [req EXCEPT
                  !.contents[Len(req.contents)].parts = Append(@, part)]
    /\ UNCHANGED <<streamVars, res>>

\* Lines 610, 668, 929: the conversation is converted.  res records the
\* messages returned and, for every turn, the messages its iteration pushed.
ConvertMessages ==
    /\ res = Pending
    /\ res' = Resolved(
                [messages |-> ConvertToOpenAIMessages(req.contents, req.now),
                 pushed |-> [k \in 1..Len(req.contents) |->
                                ConvertContent(req.contents[k], req.now)]])
    /\ UNCHANGED <<streamVars, req>>

\* Characters a token is estimated to have (line 931).
CharsPerToken == 4

\* Math.ceil of the division rounded down instead of up.
Ceil_floor(n, d) == n \div d

\* Math.ceil(n / d) for n >= 0, d > 0.
Ceil(n, d) == (n + d - 1) \div d

\* messages.map((m) => m.content || '').join(' ') of line 930.
RECURSIVE JoinSpace(_)
JoinSpace(messages) ==
    IF messages = <<>> THEN <<>>
    ELSE LET content == IF Head(messages).content \in {Null, Undefined}
                        THEN Empty ELSE Head(messages).content
         IN  IF Len(messages) = 1 THEN content
             ELSE content \o <<"SP">> \o JoinSpace(Tail(messages))

\* The value countTokens resolves with.
Counted(totalTokens) == [kind |-> "tokens", totalTokens |-> totalTokens]

\* Lines 922-936: countTokens for the conversation.
CountTokens ==
    /\ res = Pending
    /\ LET messages == ConvertToOpenAIMessages(req.contents, req.now)
           totalText == JoinSpace(messages)
       IN  res' = Counted(Ceil(Len(totalText), CharsPerToken))
    /\ UNCHANGED <<streamVars, req>>

NextMsgs ==
    \/ \E role \in Roles : AddTurn(role)
    \/ \E part \in ContentParts : AddPart(part)
    \/ ConvertMessages
    \/ CountTokens

SpecMsgs == InitMsgs /\ [][NextMsgs]_vars

(* ------------------------ convertToOpenAITools ------------------------ *)
\* Objects have identity: a schema object is an address of a heap, the heap
\* maps the addresses in use to the objects' fields, and a field that holds
\* a schema holds its address (0 when the field is absent).

\* Function declarations a caller passes.
MaxDeclarations == 1

\* Schema objects of the caller, over all declarations.
MaxNodes == 3

\* Values of a `type` field: mixed case, lower case.
SchemaTypes == {<<"S", "t">>, <<"o">>}

\* The fields of a schema that hold schemas: `properties` (an object of
\* schemas by key), `items` (one schema), `anyOf`, `allOf`, `oneOf` (arrays).
Slots == {"properties", "items", "anyOf", "allOf", "oneOf"}

\* name and description of a declaration: both given, or both left out.
DeclarationHeads ==
    {[name |-> <<"f">>, description |-> <<"d">>],
     [name |-> Undefined, description |-> Undefined]}

\* A schema object: type is Undefined when the object has no `type`.
Schema(type) ==
    [type |-> type, properties |-> <<>>, items |-> 0, anyOf |-> <<>>,
     allOf |-> <<>>, oneOf |-> <<>>]

\* String.prototype.toLowerCase.
ToLowerCase(str) == [i \in 1..Len(str) |-> IF str[i] = "S" THEN "s" ELSE str[i]]

MaxAddr(heap) ==
    IF DOMAIN heap = {} THEN 0
    ELSE CHOOSE a \in DOMAIN heap : \A b \in DOMAIN heap : b <= a

\* The addresses an object holds, in the order the code visits them.
Refs(node) ==
    [i \in 1..Len(node.properties) |-> node.properties[i].ref]
    \o (IF node.items = 0 THEN <<>> ELSE <<node.items>>)
    \o node.anyOf \o node.allOf \o node.oneOf

\* The objects of the tree below address a, a included.
RECURSIVE Reach(_, _)
Reach(heap, a) ==
    IF a = 0 THEN {}
    ELSE {a} \cup UNION {Reach(heap, Refs(heap[a])[i]) :
                             i \in 1..Len(Refs(heap[a]))}

\* An object with every address it holds moved by n.
Shift(node, n) ==
    [node EXCEPT
        !.properties = [i \in 1..Len(@) |-> [@[i] EXCEPT !.ref = @ + n]],
        !.items = IF @ = 0 THEN 0 ELSE @ + n,
        !.anyOf = [i \in 1..Len(@) |-> @[i] + n],
        !.allOf = [i \in 1..Len(@) |-> @[i] + n],
        !.oneOf = [i \in 1..Len(@) |-> @[i] + n]]

\* `declaration.parameters || {}` passed on without the copy: the object
\* converted is the caller's.
DeepCopy_alias(heap, root) ==
    IF root = 0
    THEN [heap |-> heap @@ ((MaxAddr(heap) + 1) :> Schema(Undefined)),
          root |-> MaxAddr(heap) + 1]
    ELSE [heap |-> heap, root |-> root]

\* JSON.parse(JSON.stringify(declaration.parameters || {})) of lines
\* 502-504: new objects with the fields of the objects of the tree below
\* root; an absent root is the new object `{}`.
DeepCopy(heap, root) ==
    LET n == MaxAddr(heap)
    IN  IF root = 0
        THEN [heap |-> heap @@ ((n + 1) :> Schema(Undefined)), root |-> n + 1]
        ELSE [heap |-> heap @@ [a \in {b + n : b \in Reach(heap, root)} |->
                                   Shift(heap[a - n], n)],
              root |-> root + n]

\* The schemas at refs, as the loops of lines 472-474, 482, 485, 488 and the
\* call of line 478 reach them.
RECURSIVE Visited(_, _)

\* Visited without the descent into `items` (line 478).
Visited_notIntoItems(heap, a) ==
    IF a = 0 THEN {}
    ELSE LET schema == heap[a]
         IN  {a}
             \cup UNION {Visited(heap, schema.properties[i].ref) :
                            i \in 1..Len(schema.properties)}
             \cup UNION {Visited(heap, schema.anyOf[i]) : i \in 1..Len(schema.anyOf)}
             \cup UNION {Visited(heap, schema.allOf[i]) : i \in 1..Len(schema.allOf)}
             \cup UNION {Visited(heap, schema.oneOf[i]) : i \in 1..Len(schema.oneOf)}

\* Lines 462-490: the objects that the call for the schema at address a,
\* with the calls it makes, is applied to.  The call for a missing schema
\* returns at once (line 463).
Visited(heap, a) ==
    IF a = 0 THEN {}
    ELSE LET schema == heap[a]
         IN  {a}
             \cup UNION {Visited(heap, schema.properties[i].ref) :
                            i \in 1..Len(schema.properties)}
             \cup Visited(heap, schema.items)
             \cup UNION {Visited(heap, schema.anyOf[i]) : i \in 1..Len(schema.anyOf)}
             \cup UNION {Visited(heap, schema.allOf[i]) : i \in 1..Len(schema.allOf)}
             \cup UNION {Visited(heap, schema.oneOf[i]) : i \in 1..Len(schema.oneOf)}

\* Lines 462-490: the heap after the in-place conversion of the schema at
\* address a: every object visited that has a string `type` has it assigned
\* its lower case (lines 467-469).
ConvertSchemaTypeToLowerCase(heap, a) ==
    LET visited == Visited(heap, a)
    IN  [b \in DOMAIN heap |->
            IF b \in visited /\ heap[b].type # Undefined
            THEN [heap[b] EXCEPT !.type = ToLowerCase(@)]
            ELSE heap[b]]

\* An OpenAILikeTool; parameters is the address of its schema.
Tool(name, description, parameters) ==
    [type |-> "function", name |-> name, description |-> description,
     parameters |-> parameters]

\* Lines 495-520: the tools returned and the heap after the call.  The call
\* sites (lines 627, 687) always pass an array.
RECURSIVE ConvertToOpenAITools(_, _)
ConvertToOpenAITools(heap, functionDeclarations) ==
    IF functionDeclarations = <<>> THEN [heap |-> heap, tools |-> <<>>]
    ELSE LET declaration == Head(functionDeclarations)
             parameters == DeepCopy(heap, declaration.parameters)
             h1 == ConvertSchemaTypeToLowerCase(parameters.heap, parameters.root)
             rest == ConvertToOpenAITools(h1, Tail(functionDeclarations))
         IN  [heap |-> rest.heap,
              tools |->
                 <<Tool(IF Truthy(declaration.name) THEN declaration.name
                        ELSE <<"unknown_function">>,
                        IF Truthy(declaration.description)
                        THEN declaration.description ELSE Empty,
                        parameters.root)>> \o rest.tools]

\* The caller assembles request.config.tools (lines 613-626): no
\* declaration and no object yet.
InitTools ==
    /\ NoStream
    /\ req = [functionDeclarations |-> <<>>, heap |-> <<>>]
    /\ res = Pending

\* The caller adds a declaration, without parameters so far.
AddDeclaration(head) ==
    /\ res = Pending
    /\ Len(req.functionDeclarations) < MaxDeclarations
    /\ req' = [req EXCEPT
                  !.functionDeclarations =
                      Append(@, [name |-> head.name,
                                 description |-> head.description,
                                 parameters |-> 0])]
    /\ UNCHANGED <<streamVars, res>>

\* The caller gives the last declaration its parameter schema.
AddParameters(type) ==
    /\ res = Pending
    /\ req.functionDeclarations # <<>>
    /\ Last(req.functionDeclarations).parameters = 0
    /\ Cardinality(DOMAIN req.heap) < MaxNodes
    /\ LET a == MaxAddr(req.heap) + 1
       IN  req' = [req EXCEPT
                      !.functionDeclarations[Len(req.functionDeclarations)]
                          .parameters = a,
                      !.heap = @ @@ (a :> Schema(type))]
    /\ UNCHANGED <<streamVars, res>>

\* The caller nests a schema in the schema at address a of the last
\* declaration, in the field slot.
AddSchema(a, slot, type) ==
    /\ res = Pending
    /\ Cardinality(DOMAIN req.heap) < MaxNodes
    /\ req.functionDeclarations # <<>>
    /\ a \in Reach(req.heap, Last(req.functionDeclarations).parameters)
    /\ slot = "items" => req.heap[a].items = 0
    /\ LET b == MaxAddr(req.heap) + 1
           node == req.heap[a]
           node1 ==
               CASE slot = "properties" ->
                        [node EXCEPT !.properties =
                            Append(@, [key |-> NumStr(Len(@)), ref |-> b])]
                 [] slot = "items" -> [node EXCEPT !.items = b]
                 [] slot = "anyOf" -> [node EXCEPT !.anyOf = Append(@, b)]
                 [] slot = "allOf" -> [node EXCEPT !.allOf = Append(@, b)]
                 [] slot = "oneOf" -> [node EXCEPT !.oneOf = Append(@, b)]
       IN  req' = [req EXCEPT
                      !.heap = [@ EXCEPT ![a] = node1] @@ (b :> Schema(type))]
    /\ UNCHANGED <<streamVars, res>>

\* Lines 627, 687: the declarations are converted; res is the tools returned.
ConvertTools ==
    /\ res = Pending
    /\ \E out \in {ConvertToOpenAITools(req.heap, req.functionDeclarations)} :
          /\ res' = Resolved(out.tools)
          /\ req' = [req EXCEPT !.heap = out.heap]
    /\ UNCHANGED streamVars

NextTools ==
    \/ \E head \in DeclarationHeads : AddDeclaration(head)
    \/ \E type \in SchemaTypes : AddParameters(type)
    \/ \E a \in DOMAIN req.heap : \E slot \in Slots : \E type \in SchemaTypes :
          AddSchema(a, slot, type)
    \/ ConvertTools

SpecTools == InitTools /\ [][NextTools]_vars

(* ---------------- concurrent generateContentStream calls ------------- *)
\* Two calls on one adapter instance.  What a call declares (reader, buffer:
\* lines 727-729; accumulatedToolCalls, accumulatedContent: lines 734-742)
\* is held per call; the instance's fields (apiKey, endpoint, model: lines
\* 377-381) are only read.  Each call runs the generator body above.

\* Symbols one read delivers at most.
MaxChunk == 3

Calls == {1, 2}

\* The response bodies a call can get: a text stream that ends with a finish
\* reason, a stream of tool-call deltas followed by a finish reason, and a
\* text stream that ends without a finish reason.
Bodies ==
    {<<"D", "f1", "NL", "D", "f2", "NL">>,
     <<"D", "f3", "NL", "D", "f5", "NL", "D", "f6", "NL">>,
     <<"D", "f1", "NL">>}

\* The buffer that the call k reads and writes.
BufferOf_shared(k) == 1

\* Line 729: `buffer` is declared in the call, one for each call.
BufferOf(k) == k

\* A call that has its generator and has not run it: the state of Init, for
\* a call with the response body srv0.
NewCall(srv0) ==
    [srv |-> srv0, pc |-> "start", emitted |-> <<>>, lines |-> <<>>,
     cur |-> "", atc |-> <<>>, ac |-> <<>>, hist |-> <<>>,
     doneSeen |-> FALSE, postDone |-> FALSE, finals |-> 0,
     finishSeen |-> FALSE, argsErr |-> FALSE, warned |-> FALSE,
     out |-> "read", emit |-> <<>>]

\* A call after its generator ran to the suspension described by st.
Suspended(st) ==
    [st EXCEPT !.emitted = @ \o st.emit,
               !.pc = IF st.out = "read" THEN "reading" ELSE st.out,
               !.out = "read",
               !.emit = <<>>]

\* A read that forgets the incomplete line held in the buffer.
ReadStep_dropsBuffer(c, buf, n) ==
    LET parts == SplitNL(SubSeq(c.srv, 1, n))
    IN  [call |-> Suspended(RunLines([c EXCEPT
                                         !.srv = SubSeq(@, n + 1, Len(@)),
                                         !.lines = Front(parts)])),
         buffer |-> Last(parts)]

\* Lines 746-753 for one call: the call and its buffer after a read of n
\* symbols.
ReadStep(c, buf, n) ==
    LET parts == SplitNL(buf \o SubSeq(c.srv, 1, n))
    IN  [call |-> Suspended(RunLines([c EXCEPT
                                         !.srv = SubSeq(@, n + 1, Len(@)),
                                         !.lines = Front(parts)])),
         buffer |-> Last(parts)]

\* The calls have their generators: each has its response body, its own
\* state, its own buffer.  res follows every call as it runs alone: with
\* the same reads and pulls and a buffer of its own.
InitCalls ==
    /\ NoStream
    /\ req \in [calls : [Calls -> {NewCall(b) : b \in Bodies}],
                buffers : {[k \in Calls |-> <<>>]}]
    /\ res = [calls |-> req.calls, buffers |-> [k \in Calls |-> <<>>]]

\* First next() of call k (lines 744-746).
CallStart(k) ==
    /\ req.calls[k].pc = "start"
    /\ req' = [req EXCEPT !.calls[k].pc = "reading"]
    /\ res' = [res EXCEPT !.calls[k].pc = "reading"]
    /\ UNCHANGED streamVars

\* reader.read() of call k resolves with n symbols (lines 746-753).
CallRead(k, n) ==
    /\ req.calls[k].pc = "reading"
    /\ n \in 1..Len(req.calls[k].srv)
    /\ n <= MaxChunk
    /\ \E step \in {ReadStep(req.calls[k], req.buffers[BufferOf(k)], n)} :
          req' = [req EXCEPT !.calls[k] = step.call,
                             !.buffers[BufferOf(k)] = step.buffer]
    /\ \E step \in {ReadStep(res.calls[k], res.buffers[k], n)} :
          res' = [res EXCEPT !.calls[k] = step.call,
                             !.buffers[k] = step.buffer]
    /\ UNCHANGED streamVars

\* reader.read() of call k resolves with done (line 747).
CallReadDone(k) ==
    /\ req.calls[k].pc = "reading"
    /\ req.calls[k].srv = <<>>
    /\ req' = [req EXCEPT !.calls[k].pc = "done"]
    /\ res' = [res EXCEPT !.calls[k].pc = "done"]
    /\ UNCHANGED streamVars

\* next() of call k after an incremental response (line 782).
CallResumeContent(k) ==
    /\ req.calls[k].pc = "yield_content"
    /\ req' = [req EXCEPT !.calls[k] = Suspended(AfterContent(@))]
    /\ res' = [res EXCEPT !.calls[k] = Suspended(AfterContent(@))]
    /\ UNCHANGED streamVars

\* next() of call k after the final response (line 905).
CallResumeFinal(k) ==
    /\ req.calls[k].pc = "yield_final"
    /\ req' = [req EXCEPT !.calls[k].pc = "done"]
    /\ res' = [res EXCEPT !.calls[k].pc = "done"]
    /\ UNCHANGED streamVars

NextCalls ==
    \E k \in Calls :
        \/ CallStart(k)
        \/ \E n \in 1..MaxChunk : CallRead(k, n)
        \/ CallReadDone(k)
        \/ CallResumeContent(k)
        \/ CallResumeFinal(k)

SpecCalls == InitCalls /\ [][NextCalls]_vars

(* ------------------ validateAuthMethod and AuthDialog ----------------- *)

\* The members of AuthType that the dialog and the validation name.
LOGIN_WITH_GOOGLE == <<"LOGIN_WITH_GOOGLE">>

CLOUD_SHELL == <<"CLOUD_SHELL">>

USE_GEMINI == <<"USE_GEMINI">>

USE_VERTEX_AI == <<"USE_VERTEX_AI">>

AZURE_OPENAI == <<"AZURE_OPENAI">>

AuthTypes ==
    {LOGIN_WITH_GOOGLE, CLOUD_SHELL, USE_GEMINI, USE_VERTEX_AI, AZURE_OPENAI}

\* The environment variables that the validation reads.  The environment is
\* the set of the variables that hold a non-empty value: the code reads them
\* through truthiness tests only, so an absent and an empty variable are alike.
EnvVars ==
    {"GOOGLE_CLOUD_PROJECT", "GOOGLE_CLOUD_LOCATION", "GOOGLE_API_KEY",
     "GEMINI_API_KEY", "AZURE_OPENAI_API_KEY", "AZURE_OPENAI_ENDPOINT",
     "AZURE_OPENAI_MODEL"}

\* The values of GEMINI_DEFAULT_AUTH_TYPE: unset, no member of AuthType, or
\* a member.
DefaultAuthTypes == {Undefined, <<"bogus">>} \cup AuthTypes

\* The values a text input can hold.
InputTexts == {Empty, <<"v">>}

\* A value that may be null is a sequence of no or of one element.
NoResult == <<>>

AuthValidationResult(message, missing) ==
    <<[message |-> message, missing |-> missing]>>

\* missing.push(name) for every name of names that is not set, in order.
MissingOf(names, env) == SelectSeq(names, LAMBDA name : name \notin env)

\* validateAuthMethod with the last block for Azure OpenAI, which asks for
\* the model as well, in place of the first.
ValidateAuthMethod_modelRequired(authMethod, env) ==
    IF authMethod = AZURE_OPENAI
    THEN LET missing == MissingOf(<<"AZURE_OPENAI_API_KEY",
                                    "AZURE_OPENAI_ENDPOINT",
                                    "AZURE_OPENAI_MODEL">>, env)
         IN  IF Len(missing) > 0
             THEN AuthValidationResult("Azure OpenAI: key, endpoint, model",
                                       missing)
             ELSE NoResult
    ELSE NoResult

\* validateAuthMethod: NoResult when the method may be used, else the message and
\* the variables to ask the user for.  The blocks are tried in source order,
\* so the second block for Azure OpenAI is never entered.
ValidateAuthMethod(authMethod, env) ==
    IF authMethod = CLOUD_SHELL THEN NoResult
    ELSE IF authMethod = LOGIN_WITH_GOOGLE
    THEN IF "GOOGLE_CLOUD_PROJECT" \notin env
         THEN AuthValidationResult("GOOGLE_CLOUD_PROJECT not found",
                                   <<"GOOGLE_CLOUD_PROJECT">>)
         ELSE NoResult
    ELSE IF authMethod = USE_GEMINI
    THEN IF "GEMINI_API_KEY" \notin env
         THEN AuthValidationResult("GEMINI_API_KEY not found",
                                   <<"GEMINI_API_KEY">>)
         ELSE NoResult
    ELSE IF authMethod = USE_VERTEX_AI
    THEN LET hasVertexProjectLocationConfig ==
                 /\ "GOOGLE_CLOUD_PROJECT" \in env
                 /\ "GOOGLE_CLOUD_LOCATION" \in env
             hasGoogleApiKey == "GOOGLE_API_KEY" \in env
         IN  IF ~hasVertexProjectLocationConfig /\ ~hasGoogleApiKey
             THEN AuthValidationResult(
                      "Vertex AI: project and location, or key",
                      MissingOf(<<"GOOGLE_CLOUD_PROJECT",
                                  "GOOGLE_CLOUD_LOCATION",
                                  "GOOGLE_API_KEY">>, env))
             ELSE NoResult
    ELSE IF authMethod = AZURE_OPENAI
    THEN LET missing == MissingOf(<<"AZURE_OPENAI_API_KEY",
                                    "AZURE_OPENAI_ENDPOINT">>, env)
         IN  IF Len(missing) > 0
             THEN AuthValidationResult("Azure OpenAI: key, endpoint", missing)
             ELSE NoResult
    ELSE IF authMethod = AZURE_OPENAI
    THEN LET missing == MissingOf(<<"AZURE_OPENAI_API_KEY",
                                    "AZURE_OPENAI_ENDPOINT",
                                    "AZURE_OPENAI_MODEL">>, env)
         IN  IF Len(missing) > 0
             THEN AuthValidationResult("Azure OpenAI: key, endpoint, model",
                                       missing)
             ELSE NoResult
    ELSE AuthValidationResult("Invalid auth method selected.", <<>>)

\* The items of the radio list; Cloud Shell is offered in a cloud shell only.
Items(cloudShell) ==
    <<LOGIN_WITH_GOOGLE>>
    \o (IF cloudShell THEN <<CLOUD_SHELL>> ELSE <<>>)
    \o <<USE_GEMINI, USE_VERTEX_AI, AZURE_OPENAI>>

\* parseDefaultAuthType: the value when it is a member of AuthType.
ParseDefaultAuthType(defaultAuthType) ==
    IF defaultAuthType \in AuthTypes THEN defaultAuthType ELSE NoResult

\* initialAuthIndex of a render in the dialog state r: the position in the
\* items of the saved, else the default, else the implied method; 0 stands
\* for the -1 of findIndex.
InitialAuthIndex(r) ==
    LET items == Items(r.cloudShell)
        wanted ==
            IF r.selectedAuthType # Undefined THEN r.selectedAuthType
            ELSE IF ParseDefaultAuthType(r.defaultAuthType) # Null
            THEN ParseDefaultAuthType(r.defaultAuthType)
            ELSE IF "GEMINI_API_KEY" \in r.env THEN USE_GEMINI
            ELSE LOGIN_WITH_GOOGLE
        found == {i \in 1..Len(items) : items[i] = wanted}
    IN  IF found = {} THEN 0 ELSE CHOOSE i \in found : TRUE

\* The dialog is open: it has made fewer than MaxSelects calls of onSelect
\* and no handler has thrown.
DialogOpen == Len(res.calls) < MaxSelects /\ ~res.thrown

\* The text inputs are shown, and the radio list is out of focus.
InputsShown ==
    res.authError # NoResult /\ Len(res.authError[1].missing) > 0

\* The dialog state after handleAuthSelect(authMethod) in environment env.
AfterAuthSelect(authMethod, env) ==
    LET error == ValidateAuthMethod(authMethod, env)
    IN  IF error # NoResult
        THEN [res EXCEPT !.authError = error,
                         !.inputValues = <<>>,
                         !.focusedInputIndex = 0,
                         !.last = <<[authMethod |-> authMethod,
                                     result |-> error]>>]
        ELSE [res EXCEPT !.authError = NoResult,
                         !.calls = Append(@, authMethod),
                         !.last = <<[authMethod |-> authMethod,
                                     result |-> NoResult]>>]

InitAuth ==
    /\ NoStream
    /\ \E env \in SUBSET EnvVars, cloudShell \in BOOLEAN,
          selectedAuthType \in {Undefined} \cup AuthTypes,
          defaultAuthType \in DefaultAuthTypes :
           req = [env |-> env, cloudShell |-> cloudShell,
                  selectedAuthType |-> selectedAuthType,
                  defaultAuthType |-> defaultAuthType]
    /\ res = [authError |-> NoResult, inputValues |-> <<>>,
              focusedInputIndex |-> 0, calls |-> <<>>, last |-> NoResult,
              selected |-> NoResult, thrown |-> FALSE]

\* The user chooses an item of the radio list; selected keeps the choice.
HandleAuthSelect(authMethod) ==
    /\ DialogOpen
    /\ ~InputsShown
    /\ \E i \in 1..Len(Items(req.cloudShell)) :
           Items(req.cloudShell)[i] = authMethod
    /\ res' = [AfterAuthSelect(authMethod, req.env)
                  EXCEPT !.selected = <<authMethod>>]
    /\ UNCHANGED <<streamVars, req>>

\* The user edits the focused text input.
HandleInputChange(value) ==
    /\ DialogOpen
    /\ InputsShown
    /\ LET key == res.authError[1].missing[res.focusedInputIndex + 1]
       IN  res' = [res EXCEPT !.inputValues = (key :> value) @@ @]
    /\ UNCHANGED <<streamVars, req>>

\* Enter on the last text input: handleRetry writes the inputs into the
\* environment and validates the item at the initial index of the render
\* before; without such an item, reading its value throws.
HandleRetry ==
    LET env == (req.env \ {k \in DOMAIN res.inputValues :
                               res.inputValues[k] = Empty})
               \cup {k \in DOMAIN res.inputValues :
                         res.inputValues[k] # Empty}
        initialAuthIndex == InitialAuthIndex(req)
    IN  /\ req' = [req EXCEPT !.env = env]
        /\ res' = IF initialAuthIndex = 0
                  THEN [res EXCEPT !.thrown = TRUE]
                  ELSE AfterAuthSelect(
                           Items(req.cloudShell)[initialAuthIndex], env)

\* Enter while the text inputs are shown: the next input, or a retry.
KeyReturn ==
    /\ DialogOpen
    /\ InputsShown
    /\ IF res.focusedInputIndex < Len(res.authError[1].missing) - 1
       THEN /\ res' = [res EXCEPT !.focusedInputIndex = @ + 1]
            /\ UNCHANGED req
       ELSE HandleRetry
    /\ UNCHANGED streamVars

KeyUpArrow ==
    /\ DialogOpen
    /\ InputsShown
    /\ res' = [res EXCEPT !.focusedInputIndex =
                              IF @ - 1 > 0 THEN @ - 1 ELSE 0]
    /\ UNCHANGED <<streamVars, req>>

KeyDownArrow ==
    /\ DialogOpen
    /\ InputsShown
    /\ res' = [res EXCEPT !.focusedInputIndex =
                              IF @ + 1 < Len(res.authError[1].missing) - 1
                              THEN @ + 1
                              ELSE Len(res.authError[1].missing) - 1]
    /\ UNCHANGED <<streamVars, req>>

\* Escape while no text input is shown: refused after an error or without a
\* saved method, else the dialog is left with no method.
KeyEscape ==
    /\ DialogOpen
    /\ ~InputsShown
    /\ res' = IF res.authError # NoResult THEN res
              ELSE IF req.selectedAuthType = Undefined
              THEN [res EXCEPT !.authError =
                        AuthValidationResult(
                            "You must select an auth method to proceed.",
                            <<>>)]
              ELSE [res EXCEPT !.calls = Append(@, Undefined)]
    /\ UNCHANGED <<streamVars, req>>

NextAuth ==
    \/ \E authMethod \in AuthTypes : HandleAuthSelect(authMethod)
    \/ \E value \in InputTexts : HandleInputChange(value)
    \/ KeyReturn
    \/ KeyUpArrow
    \/ KeyDownArrow
    \/ KeyEscape

SpecAuth == InitAuth /\ [][NextAuth]_vars

(* ------------------ extractJsonFromText, parseJsonFromText ------------ *)
\* A text is a sequence of symbols: "F" a fence (three backticks), "J" the
\* language tag json or JSON, "NL" a newline, the brackets, "Q" a double
\* quote, "BS" a backslash and "x" a letter.

\* Whitespace, for trim and for \s.
IsSpace(c) == c \in {"NL", "WS"}

\* String.prototype.trim on a text.
RECURSIVE TrimText(_)
TrimText(s) ==
    IF s = <<>> THEN s
    ELSE IF IsSpace(Head(s)) THEN TrimText(Tail(s))
    ELSE IF IsSpace(Last(s)) THEN TrimText(Front(s))
    ELSE s

\* The positions of s from i on, in order, up to the first that is no space.
RECURSIVE SkipSpace(_, _)
SkipSpace(s, i) ==
    IF i <= Len(s) /\ IsSpace(s[i]) THEN SkipSpace(s, i + 1) ELSE i

\* JSON.parse of a string literal that opens at i - 1: the position after its
\* closing quote, 0 when it has none or holds a newline or a bad escape.
RECURSIVE StringEnd(_, _)
StringEnd(s, i) ==
    IF i > Len(s) THEN 0
    ELSE IF s[i] = "Q" THEN i + 1
    ELSE IF s[i] = "NL" THEN 0
    ELSE IF s[i] = "BS"
    THEN IF i + 1 <= Len(s) /\ s[i + 1] \in {"Q", "BS"}
         THEN StringEnd(s, i + 2)
         ELSE 0
    ELSE StringEnd(s, i + 1)

\* JSON.parse of a value that starts at i: the position after it, 0 when
\* there is no value.  The symbols allow strings, the empty object and
\* arrays of no or one element.
RECURSIVE ValueEnd(_, _)
ValueEnd(s, i) ==
    IF i > Len(s) THEN 0
    ELSE IF s[i] = "Q" THEN StringEnd(s, i + 1)
    ELSE IF s[i] = "{"
    THEN LET j == SkipSpace(s, i + 1)
         IN  IF j <= Len(s) /\ s[j] = "}" THEN j + 1 ELSE 0
    ELSE IF s[i] = "["
    THEN LET j == SkipSpace(s, i + 1)
         IN  IF j <= Len(s) /\ s[j] = "]" THEN j + 1
             ELSE LET e == ValueEnd(s, j)
                      k == SkipSpace(s, e)
                  IN  IF e # 0 /\ k <= Len(s) /\ s[k] = "]" THEN k + 1 ELSE 0
    ELSE 0

\* Whether JSON.parse(s) returns.
JsonTextValid(s) ==
    LET e == ValueEnd(s, SkipSpace(s, 1))
    IN  e # 0 /\ SkipSpace(s, e) = Len(s) + 1

\* The loop of extractJsonFromPosition from position i: the position of the
\* close that brings bracketCount to 0, 0 when the text ends before.
RECURSIVE MatchFrom(_, _, _, _, _, _)
MatchFrom(text, i, openChar, bracketCount, inString, escapeNext) ==
    IF i > Len(text) THEN 0
    ELSE IF escapeNext
    THEN MatchFrom(text, i + 1, openChar, bracketCount, inString, FALSE)
    ELSE IF text[i] = "BS"
    THEN MatchFrom(text, i + 1, openChar, bracketCount, inString, TRUE)
    ELSE IF text[i] = "Q"
    THEN MatchFrom(text, i + 1, openChar, bracketCount, ~inString, FALSE)
    ELSE IF ~inString /\ text[i] = openChar
    THEN MatchFrom(text, i + 1, openChar, bracketCount + 1, inString, FALSE)
    ELSE IF ~inString /\ text[i] = (IF openChar = "{" THEN "}" ELSE "]")
    THEN IF bracketCount - 1 = 0 THEN i
         ELSE MatchFrom(text, i + 1, openChar, bracketCount - 1, inString,
                        FALSE)
    ELSE MatchFrom(text, i + 1, openChar, bracketCount, inString, FALSE)

\* extractJsonFromPosition: the substring from startIndex to the matching
\* close, Null without a bracket at startIndex or without a matching close.
ExtractJsonFromPosition(text, startIndex) ==
    IF text[startIndex] \notin {"{", "["} THEN Null
    ELSE LET end == MatchFrom(text, startIndex, text[startIndex], 0, FALSE,
                              FALSE)
         IN  IF end = 0 THEN Null ELSE SubSeq(text, startIndex, end)

\* Lines 209-213: the text is a fence, an optional tag, spaces, a capture
\* and a fence at its very end.  The capture is lazy, and only the last
\* symbol can be the closing fence, so the capture runs up to it; the result
\* is trimmed, so the spaces the prefix and the \n? take make no difference.
CodeBlock(trimmed) ==
    IF /\ Len(trimmed) >= 2
       /\ trimmed[1] = "F"
       /\ trimmed[Len(trimmed)] = "F"
    THEN LET afterTag == IF trimmed[2] = "J" THEN 3 ELSE 2
         IN  TrimText(SubSeq(trimmed, afterTag, Len(trimmed) - 1))
    ELSE Null

\* Lines 216-220: the leftmost fence that has a fence after it, an optional
\* tag, and the lazy capture up to the next fence, trimmed.
CodeBlockWithText(trimmed) ==
    LET fences == {i \in 1..Len(trimmed) : trimmed[i] = "F"}
    IN  IF Cardinality(fences) >= 2
        THEN LET first == CHOOSE i \in fences : \A j \in fences : i <= j
                 afterTag == IF trimmed[first + 1] = "J" THEN first + 2
                             ELSE first + 1
                 next == CHOOSE i \in fences :
                             /\ i >= afterTag
                             /\ \A j \in fences : j >= afterTag => i <= j
             IN  TrimText(SubSeq(trimmed, afterTag, next - 1))
        ELSE Null

\* Lines 224-236: the candidates in the order of their start positions.
RECURSIVE JsonCandidates(_, _)
JsonCandidates(trimmed, i) ==
    IF i > Len(trimmed) THEN <<>>
    ELSE LET candidate == ExtractJsonFromPosition(trimmed, i)
         IN  (IF candidate # Null THEN <<candidate>> ELSE <<>>)
             \o JsonCandidates(trimmed, i + 1)

\* Line 239: a stable sort, longest first, by insertion.
RECURSIVE SortLongestFirst(_)
SortLongestFirst(cs) ==
    IF cs = <<>> THEN <<>>
    ELSE LET rest == SortLongestFirst(Front(cs))
             c == Last(cs)
             before == SelectSeq(rest, LAMBDA d : Len(d) >= Len(c))
             after == SelectSeq(rest, LAMBDA d : Len(d) < Len(c))
         IN  before \o <<c>> \o after

\* Lines 242-249 without the JSON.parse: the first candidate.
FirstValid_unchecked(cs) == IF cs = <<>> THEN Null ELSE Head(cs)

\* Lines 242-249: the first candidate that JSON.parse accepts.
FirstValid(cs) ==
    LET valid == SelectSeq(cs, JsonTextValid)
    IN  IF valid = <<>> THEN Null ELSE Head(valid)

\* Lines 253-290: from the first bracket, to the close that a count blind
\* to strings reaches; Null when there is none or JSON.parse rejects it.
RECURSIVE BlindMatch(_, _, _, _)
BlindMatch(s, i, openChar, bracketCount) ==
    IF i > Len(s) THEN 0
    ELSE IF s[i] = openChar THEN BlindMatch(s, i + 1, openChar, bracketCount + 1)
    ELSE IF s[i] = (IF openChar = "{" THEN "}" ELSE "]")
    THEN IF bracketCount - 1 = 0 THEN i
         ELSE BlindMatch(s, i + 1, openChar, bracketCount - 1)
    ELSE BlindMatch(s, i + 1, openChar, bracketCount)

PrefixRemoval(cleaned) ==
    LET starts == {i \in 1..Len(cleaned) : cleaned[i] \in {"{", "["}}
    IN  IF starts = {} THEN Null
        ELSE LET startIndex == CHOOSE i \in starts : \A j \in starts : i <= j
                 candidateFromStart ==
                     SubSeq(cleaned, startIndex, Len(cleaned))
                 endIndex == BlindMatch(candidateFromStart, 1,
                                        candidateFromStart[1], 0)
                 candidate == SubSeq(candidateFromStart, 1, endIndex)
             IN  IF endIndex # 0 /\ JsonTextValid(candidate) THEN candidate
                 ELSE Null

\* Lines 294-304: the regular expression takes the first bracket that has
\* no newline before it, and from there up to the last close of its kind
\* that has no newline after it; Null when there is none or JSON.parse
\* rejects it.
NoNewline(s, from, to) == \A k \in from..to : s[k] # "NL"

JsonWithContext(cleaned) ==
    LET pairs == {p \in (1..Len(cleaned)) \X (1..Len(cleaned)) :
                     /\ p[1] < p[2]
                     /\ \/ cleaned[p[1]] = "{" /\ cleaned[p[2]] = "}"
                        \/ cleaned[p[1]] = "[" /\ cleaned[p[2]] = "]"
                     /\ NoNewline(cleaned, 1, p[1] - 1)
                     /\ NoNewline(cleaned, p[2] + 1, Len(cleaned))}
    IN  IF pairs = {} THEN Null
        ELSE LET p == CHOOSE q \in pairs :
                          \A r \in pairs :
                              \/ q[1] < r[1]
                              \/ q[1] = r[1] /\ q[2] >= r[2]
                 candidate == TrimText(SubSeq(cleaned, p[1], p[2]))
             IN  IF JsonTextValid(candidate) THEN candidate ELSE Null

\* extractJsonFromText: the strategies in their order.
ExtractJsonFromText(text) ==
    LET trimmed == TrimText(text)
    IN  IF CodeBlock(trimmed) # Null THEN CodeBlock(trimmed)
        ELSE IF CodeBlockWithText(trimmed) # Null
        THEN CodeBlockWithText(trimmed)
        ELSE LET found == FirstValid(SortLongestFirst(
                              JsonCandidates(trimmed, 1)))
             IN  IF found # Null THEN found
                 ELSE IF PrefixRemoval(trimmed) # Null
                 THEN PrefixRemoval(trimmed)
                 ELSE IF JsonWithContext(trimmed) # Null
                 THEN JsonWithContext(trimmed)
                 ELSE trimmed

\* Symbols of the texts with fenced blocks, and of the texts without.
FencedChars == {"F", "J", "NL", "{", "}"}

BareChars == {"{", "}", "[", "]", "Q", "BS", "x", "NL"}

\* The outcome of parseJsonFromText: the extracted text, and whether
\* JSON.parse of it throws.
Extracted(jsonString) ==
    [kind |-> "json", extracted |-> jsonString,
     throws |-> ~JsonTextValid(jsonString)]

InitText ==
    /\ NoStream
    /\ req = [text |-> <<>>]
    /\ res = Pending

\* The caller's text grows by one symbol.
TypeFenced(c) ==
    /\ res = Pending
    /\ Len(req.text) < MaxFenced
    /\ req' = [req EXCEPT !.text = Append(@, c)]
    /\ UNCHANGED <<streamVars, res>>

TypeBare(c) ==
    /\ res = Pending
    /\ Len(req.text) < MaxBare
    /\ req' = [req EXCEPT !.text = Append(@, c)]
    /\ UNCHANGED <<streamVars, res>>

\* parseJsonFromText(text) (lines 318-321).
ParseJsonFromText ==
    /\ res = Pending
    /\ res' = Extracted(ExtractJsonFromText(req.text))
    /\ UNCHANGED <<streamVars, req>>

NextFenced ==
    \/ \E c \in FencedChars : TypeFenced(c)
    \/ ParseJsonFromText

SpecFenced == InitText /\ [][NextFenced]_vars

NextBare ==
    \/ \E c \in BareChars : TypeBare(c)
    \/ ParseJsonFromText

SpecBare == InitText /\ [][NextBare]_vars

(* -------------- generateContentStream: reads split anywhere ----------- *)
\* One call whose response body is delivered in reads of any sizes, beside
\* the same call with its body delivered in a single read.

\* The response bodies: up to MaxSplitLines lines, each ended by a newline
\* but, possibly, the last.
RECURSIVE BodiesOf(_)
BodiesOf(n) ==
    IF n = 0 THEN {<<>>}
    ELSE BodiesOf(n - 1)
         \cup {line \o <<"NL">> \o body :
                  line \in Lines, body \in BodiesOf(n - 1)}

SplitBodies ==
    BodiesOf(MaxSplitLines)
    \cup {Front(body) : body \in BodiesOf(MaxSplitLines) \ {<<>>}}

\* The consumer pulls a call, whose reads have all been made, to its end.
RECURSIVE Drain(_)
Drain(c) ==
    IF c.pc = "yield_content" THEN Drain(Suspended(AfterContent(c)))
    ELSE [c EXCEPT !.pc = "done"]

\* The call with the response body srv0 after a single read of the whole
\* body, pulled to its end.
WholeRun(srv0) ==
    IF srv0 = <<>> THEN [NewCall(srv0) EXCEPT !.pc = "done"]
    ELSE Drain(ReadStep([NewCall(srv0) EXCEPT !.pc = "reading"], <<>>,
                        Len(srv0)).call)

InitSplit ==
    /\ NoStream
    /\ \E srv0 \in SplitBodies :
           /\ req = [body |-> srv0, call |-> NewCall(srv0), buffer |-> <<>>]
           /\ res = WholeRun(srv0)

\* First next() (lines 744-746).
SplitStart ==
    /\ req.call.pc = "start"
    /\ req' = [req EXCEPT !.call.pc = "reading"]
    /\ UNCHANGED <<streamVars, res>>

\* reader.read() resolves with n symbols (lines 746-753).
SplitRead(n) ==
    /\ req.call.pc = "reading"
    /\ n \in 1..Len(req.call.srv)
    /\ \E step \in {ReadStep(req.call, req.buffer, n)} :
          req' = [req EXCEPT !.call = step.call, !.buffer = step.buffer]
    /\ UNCHANGED <<streamVars, res>>

\* A generator that, when the reader reports done, takes what the buffer
\* holds for a last line before it completes.
SplitReadDone_parsesBuffer ==
    /\ req.call.pc = "reading"
    /\ req.call.srv = <<>>
    /\ \E step \in {ReadStep([req.call EXCEPT !.srv = <<"NL">>],
                              req.buffer, 1)} :
          req' = [req EXCEPT
                     !.call = [step.call EXCEPT
                                  !.pc = IF @ = "reading" THEN "done" ELSE @],
                     !.buffer = <<>>]
    /\ UNCHANGED <<streamVars, res>>

\* reader.read() resolves with done (line 747).
SplitReadDone ==
    /\ req.call.pc = "reading"
    /\ req.call.srv = <<>>
    /\ req' = [req EXCEPT !.call.pc = "done"]
    /\ UNCHANGED <<streamVars, res>>

\* next() after an incremental response (line 782).
SplitResumeContent ==
    /\ req.call.pc = "yield_content"
    /\ req' = [req EXCEPT !.call = Suspended(AfterContent(@))]
    /\ UNCHANGED <<streamVars, res>>

\* next() after the final response (line 905).
SplitResumeFinal ==
    /\ req.call.pc = "yield_final"
    /\ req' = [req EXCEPT !.call.pc = "done"]
    /\ UNCHANGED <<streamVars, res>>

NextSplit ==
    \/ SplitStart
    \/ \E n \in 1..MaxChunk : SplitRead(n)
    \/ SplitReadDone
    \/ SplitResumeContent
    \/ SplitResumeFinal

SpecSplit == InitSplit /\ [][NextSplit]_vars

(* ------- createContentGeneratorConfig, createContentGenerator --------- *)
\* From the validation of Azure OpenAI to the adapter: validateAuthMethod,
\* createContentGeneratorConfig, createContentGenerator and the constructor
\* of AzureOpenAIContentGenerator, on one environment.

\* contentGenerator.ts names the method USE_AZURE_OPENAI; it is taken to be
\* the method that the dialog offers as Azure OpenAI.
USE_AZURE_OPENAI == AZURE_OPENAI

DEFAULT_GEMINI_MODEL == <<"gemini-2.5-pro">>

DEFAULT_OPENAI_LIKE_MODEL == <<"gpt-3.5-turbo">>

\* The values of the variables of the environment: unset, empty, or a text;
\* a URL is a host with or without a slash at its end.
KeyValues == {Undefined, Empty, <<"k">>}

UrlValues == {Undefined, Empty, <<"u">>, <<"u", "/">>}

ModelValues == {Undefined, <<"m">>}

\* x || y of JavaScript on optional strings.
OrElse(x, y) == IF Truthy(x) THEN x ELSE y

\* The variables of env that hold a non-empty value.
SetVars(env) == {v \in DOMAIN env : Truthy(env[v])}

\* obj.field of JavaScript: undefined when the object has no such property.
Get(obj, field) == IF field \in DOMAIN obj THEN obj[field] ELSE Undefined

\* String.prototype.replace(/\/$/, ''): without one slash at the end.
StripSlash(url) == IF url # <<>> /\ Last(url) = "/" THEN Front(url) ELSE url

\* createContentGeneratorConfig(model, authType) for Azure OpenAI (lines
\* 81-101, 138-147, 164): the branches of the other methods do not apply.
CreateContentGeneratorConfig(model, authType, env) ==
    LET openaiLikeModel == Get(env, "OPENAI_LIKE_MODEL")
        effectiveModel == OrElse(model, DEFAULT_GEMINI_MODEL)
    IN  IF /\ authType = USE_AZURE_OPENAI
           /\ Truthy(Get(env, "AZURE_OPENAI_API_KEY"))
           /\ Truthy(Get(env, "AZURE_OPENAI_BASE_URL"))
        THEN [model |-> OrElse(effectiveModel, DEFAULT_OPENAI_LIKE_MODEL),
              authType |-> authType,
              openaiLikeConfig |->
                  <<[apiKey |-> env["AZURE_OPENAI_API_KEY"],
                     baseUrl |-> env["AZURE_OPENAI_BASE_URL"],
                     modelName |-> OrElse(openaiLikeModel,
                                          DEFAULT_OPENAI_LIKE_MODEL)]>>]
        ELSE [model |-> effectiveModel, authType |-> authType,
              openaiLikeConfig |-> NoResult]

Failure(message) == [kind |-> "error", message |-> message]

\* new AzureOpenAIContentGenerator(config) (lines 377-381): the call of
\* replace on an endpoint that is undefined throws a TypeError.
Construct(config) ==
    IF Get(config, "endpoint") = Undefined
    THEN Failure("TypeError: Cannot read properties of undefined")
    ELSE [kind |-> "generator",
          apiKey |-> Get(config, "apiKey"),
          endpoint |-> StripSlash(Get(config, "endpoint")),
          model |-> Get(config, "model")]

\* createContentGenerator(config) for Azure OpenAI (lines 208-213, 216).
CreateContentGenerator(config) ==
    IF config.authType = USE_AZURE_OPENAI
    THEN IF config.openaiLikeConfig = NoResult
         THEN Failure("Azure OpenAI configuration is required")
         ELSE Construct(config.openaiLikeConfig[1])
    ELSE Failure("Unsupported authType")

InitConfig ==
    /\ NoStream
    /\ \E key \in KeyValues, endpoint \in UrlValues, baseUrl \in UrlValues,
          openaiLikeModel \in ModelValues, model \in ModelValues :
           req = [env |-> [AZURE_OPENAI_API_KEY |-> key,
                           AZURE_OPENAI_ENDPOINT |-> endpoint,
                           AZURE_OPENAI_BASE_URL |-> baseUrl,
                           OPENAI_LIKE_MODEL |-> openaiLikeModel],
                  model |-> model]
    /\ res = [stage |-> "select", config |-> NoResult, outcome |-> NoResult]

\* The user selects Azure OpenAI: validateAuthMethod accepts or refuses.
ValidateAzure ==
    /\ res.stage = "select"
    /\ res' = [res EXCEPT !.stage =
                  IF ValidateAuthMethod(AZURE_OPENAI, SetVars(req.env))
                         = NoResult
                  THEN "accepted" ELSE "refused"]
    /\ UNCHANGED <<streamVars, req>>

\* The configuration is made for the accepted method.
MakeConfig ==
    /\ res.stage = "accepted"
    /\ res' = [res EXCEPT
                  !.stage = "configured",
                  !.config = <<CreateContentGeneratorConfig(
                                   req.model, USE_AZURE_OPENAI, req.env)>>]
    /\ UNCHANGED <<streamVars, req>>

\* The generator is made from the configuration.
MakeGenerator ==
    /\ res.stage = "configured"
    /\ res' = [res EXCEPT
                  !.stage = "made",
                  !.outcome = <<CreateContentGenerator(res.config[1])>>]
    /\ UNCHANGED <<streamVars, req>>

NextConfig ==
    \/ ValidateAzure
    \/ MakeConfig
    \/ MakeGenerator

SpecConfig == InitConfig /\ [][NextConfig]_vars

(* ------------------- properties of generateContentStream ------------- *)

IsPrefix(s, t) == Len(s) <= Len(t) /\ SubSeq(t, 1, Len(s)) = s

DeltaIndex(d) == IF d.index = <<>> THEN 0 ELSE d.index[1]

\* The name (isName) or argument fragments that the deltas ds carry for one
\* index, concatenated in arrival order.
RECURSIVE DeltaFragments(_, _, _)
DeltaFragments(ds, index, isName) ==
    IF ds = <<>> THEN <<>>
    ELSE (IF DeltaIndex(Head(ds)) = index
          THEN (IF isName THEN Head(ds).name ELSE Head(ds).arguments)
          ELSE <<>>)
         \o DeltaFragments(Tail(ds), index, isName)

\* The same over the payloads h, in arrival order.
RECURSIVE Fragments(_, _, _)
Fragments(h, index, isName) ==
    IF h = <<>> THEN <<>>
    ELSE DeltaFragments(Frame(Head(h)).tool_calls, index, isName)
         \o Fragments(Tail(h), index, isName)

\* The function-call parts of a response, in order.
RECURSIVE FunctionCallParts(_)
FunctionCallParts(parts) ==
    IF parts = <<>> THEN <<>>
    ELSE IF Head(parts).kind = "functionCall"
    THEN <<Head(parts)>> \o FunctionCallParts(Tail(parts))
    ELSE FunctionCallParts(Tail(parts))

\* The payloads of h that carry a non-empty text delta, in order.
RECURSIVE TextFrames(_)
TextFrames(h) ==
    IF h = <<>> THEN <<>>
    ELSE IF Frame(Head(h)).content # <<>>
    THEN <<Head(h)>> \o TextFrames(Tail(h))
    ELSE TextFrames(Tail(h))

\* The text deltas of h, concatenated.
RECURSIVE TextOf(_)
TextOf(h) == IF h = <<>> THEN <<>> ELSE Frame(Head(h)).content \o TextOf(Tail(h))

\* C1: once a choice with a non-null finish reason has been processed, the
\* generator has emitted exactly one final response as its last response and
\* is suspended at it or finished: with accumulated tool calls the parts are
\* the accumulated text (if non-empty) followed by the calls that have an id
\* and a name, otherwise the parts are empty.
C1_FinishEmitsFinalThenTerminates ==
    finishSeen =>
        /\ pc \in {"yield_final", "done"}
        /\ finals = 1
        /\ emitted # <<>>
        /\ Last(emitted).finishReason = Frame(cur).finish_reason
        /\ LET parts == Last(emitted).parts
               calls == CompleteCalls(accumulatedToolCalls)
               text == IF accumulatedContent # <<>> THEN 1 ELSE 0
           IN  IF accumulatedToolCalls = <<>> THEN parts = <<>>
               ELSE /\ Len(parts) = text + Len(calls)
                    /\ text = 1 => parts[1] = TextPart(accumulatedContent)
                    /\ \A i \in 1..Len(calls) :
                          /\ parts[text + i].kind = "functionCall"
                          /\ parts[text + i].id = calls[i].id
                          /\ parts[text + i].name = calls[i].name

\* C2: in the final response after the finish-reason frame, the function-call
\* parts are those of the accumulated indexes that have an id and a name, in
\* order, each with its name equal to the concatenation of all name fragments
\* that arrived for its index and, when argument fragments arrived, its
\* arguments equal to the JSON decoding of their concatenation in arrival
\* order.
C2_FragmentsConcatenated ==
    (pc = "yield_final" /\ accumulatedToolCalls # <<>>) =>
        LET calls == CompleteCalls(accumulatedToolCalls)
            fcs == FunctionCallParts(Last(emitted).parts)
        IN  /\ Len(fcs) = Len(calls)
            /\ \A i \in 1..Len(calls) :
                  LET name == Fragments(hist, calls[i].index, TRUE)
                      arguments == Fragments(hist, calls[i].index, FALSE)
                  IN  /\ fcs[i].name = name
                      /\ arguments # <<>> =>
                            /\ JSONValid(arguments)
                            /\ fcs[i].args = JSONParse(arguments)

\* C2 witness: the final response carries a call whose name arrived in two
\* fragments and whose arguments arrived in three.
C2_Witness ==
    /\ pc = "yield_final"
    /\ hist = <<"f3", "f4", "f5", "f6">>
    /\ \E i \in 1..Len(Last(emitted).parts) :
          /\ Last(emitted).parts[i].name = <<"f", "g">>
          /\ Last(emitted).parts[i].args = {"m"}

\* C3: the reader is never released twice, is not released while the
\* generator can still run, and has been released exactly once when the
\* generator has left the stream-consuming loop by any exit: end of stream,
\* return after a finish reason, a failed read, a return by the consumer.
C3_ReaderReleasedOnce ==
    /\ released <= 1
    /\ pc # "done" => released = 0
    /\ exit \in {"eof", "finish", "error", "return"} => released = 1

\* C3 witness: the consumer returned early at an incremental response, before
\* any finish reason, and the reader has been released once.
C3_Witness ==
    /\ pc = "done"
    /\ exit = "return"
    /\ ~finishSeen
    /\ released = 1

\* C5 (as claimed): once a `data: [DONE]` line has been processed the
\* generator is finished.
C5_DoneLineTerminates == doneSeen => pc = "done"

\* C5 (amended): a `data: [DONE]` line is skipped and ends nothing: when the
\* generator next waits for data, every choice-bearing data line read so far,
\* before or after the `[DONE]` line, has been processed, and each text delta
\* among them has been emitted.
C5_DoneLineIsSkipped ==
    (doneSeen /\ pc = "reading") =>
        /\ Len(hist) = nFrames
        /\ Len(emitted) = Len(TextFrames(hist))

\* C5 witness: a choice was processed after a `data: [DONE]` line and the
\* generator waits for more data.
C5_Witness == doneSeen /\ postDone /\ pc = "reading" /\ emitted # <<>>

\* C6: when JSON.parse of an accumulated tool call's arguments fails at the
\* finish-reason frame, the consumer receives an error.
C6_ArgumentErrorPropagates == argsErr => thrown

\* C9 (as claimed): the incremental response of a text delta has the delta's
\* text as its only part and carries no finish reason.
C9_IncrementalHasNoFinishReason ==
    pc = "yield_content" =>
        Last(emitted) = Response(<<TextPart(Frame(cur).content)>>, "null")

\* C9 (amended): every non-empty text delta is appended to the accumulator
\* and emitted, before any later line is processed, as one response whose
\* only part is the delta's text and whose finish reason is that of the
\* delta's own choice (null unless the same frame carries a finish reason).
C9_IncrementalResponses ==
    /\ accumulatedContent = TextOf(hist)
    /\ LET deltas == TextFrames(hist)
       IN  /\ Len(emitted) = Len(deltas) + finals
           /\ \A i \in 1..Len(deltas) :
                 emitted[i] = Response(<<TextPart(Frame(deltas[i]).content)>>,
                                       Frame(deltas[i]).finish_reason)
    /\ pc = "yield_content" =>
          /\ Frame(cur).content # <<>>
          /\ cur = Last(hist)
          /\ Last(emitted) = Response(<<TextPart(Frame(cur).content)>>,
                                      Frame(cur).finish_reason)

\* C9 witness: the generator is suspended at the incremental response of a
\* text delta whose frame also carries a finish reason.
C9_Witness ==
    /\ pc = "yield_content"
    /\ Frame(cur).finish_reason # "null"
    /\ Last(emitted).finishReason = Frame(cur).finish_reason

\* C10 (as claimed): in every step, each field of every accumulated record
\* keeps its earlier value as a prefix of its later value.
C10_AllFieldsOnlyGrow ==
    [][\A i \in 1..Len(accumulatedToolCalls) :
          /\ IsPrefix(accumulatedToolCalls[i].id, accumulatedToolCalls'[i].id)
          /\ IsPrefix(accumulatedToolCalls[i].type, accumulatedToolCalls'[i].type)
          /\ IsPrefix(accumulatedToolCalls[i].name, accumulatedToolCalls'[i].name)
          /\ IsPrefix(accumulatedToolCalls[i].arguments,
                      accumulatedToolCalls'[i].arguments)]_vars

\* C10 (amended): records are never removed or reordered; the function name
\* and the function arguments of a record only grow by concatenation; its id
\* and type, once set, stay set but are replaced by the value of any later
\* delta that carries one.
C10_NameAndArgumentsOnlyGrow ==
    [][/\ Len(accumulatedToolCalls) <= Len(accumulatedToolCalls')
       /\ \A i \in 1..Len(accumulatedToolCalls) :
             /\ accumulatedToolCalls'[i].index = accumulatedToolCalls[i].index
             /\ IsPrefix(accumulatedToolCalls[i].name,
                         accumulatedToolCalls'[i].name)
             /\ IsPrefix(accumulatedToolCalls[i].arguments,
                         accumulatedToolCalls'[i].arguments)
             /\ accumulatedToolCalls[i].id # <<>> =>
                   accumulatedToolCalls'[i].id # <<>>
             /\ accumulatedToolCalls[i].type # <<>> =>
                   accumulatedToolCalls'[i].type # <<>>]_vars

\* C10 witness: a record whose name grew from two fragments and whose id was
\* replaced by a later delta.
C10_Witness ==
    \E i \in 1..Len(accumulatedToolCalls) :
        /\ accumulatedToolCalls[i].name = <<"f", "g">>
        /\ accumulatedToolCalls[i].id = <<"j">>

\* A complete line that is not a `data: ` line with a payload that fails to
\* parse.
WellFormed(line) ==
    LET trimmed == Trim(line)
    IN  ~(/\ trimmed # <<>>
          /\ Head(trimmed) = "D"
          /\ trimmed # <<"D", "DONE">>
          /\ ~ChunkValid(Tail(trimmed)))

\* The generator's state after a run that ended as st describes, but for the
\* lines still to process, which are compared without the malformed ones.
SameOutcome(st) ==
    /\ pc' = (IF st.out = "read" THEN "reading" ELSE st.out)
    /\ thrown' = thrown
    /\ accumulatedContent' = st.ac
    /\ accumulatedToolCalls' = st.atc
    /\ emitted' = emitted \o st.emit
    /\ SelectSeq(lines', WellFormed) = st.lines

\* C11: a `data: ` line whose payload fails to parse is skipped: every run of
\* the generator over the lines of a read (from the read, or resumed after an
\* incremental response) raises no error, and leaves the accumulated text,
\* the accumulated tool calls and the responses emitted exactly as the same
\* run over the same lines without the malformed ones.
C11_MalformedLineSkipped ==
    [][/\ (pc = "reading" /\ Len(srv') < Len(srv)) =>
             \A parts \in {SplitNL(buffer \o
                                    SubSeq(srv, 1, Len(srv) - Len(srv')))} :
                 \A st \in {RunLines(
                         [GenState EXCEPT
                             !.lines = SelectSeq(Front(parts), WellFormed)])} :
                     SameOutcome(st)
       /\ (pc = "yield_content" /\ pc' # "done") =>
             \A st \in {AfterContent(
                     [GenState EXCEPT
                         !.lines = SelectSeq(lines, WellFormed)])} :
                 SameOutcome(st)]_vars

\* C11 witness: a malformed line was processed before the finish-reason
\* frame, no argument string failed to parse, and the final response carries
\* the call assembled from the frames around it.
C11_Witness ==
    /\ warned
    /\ ~argsErr
    /\ ~thrown
    /\ pc = "yield_final"
    /\ hist = <<"f3", "f5", "f6">>
    /\ Last(emitted).parts = <<FunctionCallPart(<<"j">>, <<"f">>, {})>>

\* C12: a response with a function-call part is only ever the final
\* response, emitted when a finish reason was processed; before that no
\* emitted response has one, and the payloads that carry only tool-call
\* deltas cause no emission: the responses are one per text delta, then the
\* final one.
C12_NoPartialToolCallEmitted ==
    /\ \A i \in 1..Len(emitted) :
          FunctionCallParts(emitted[i].parts) # <<>> =>
              /\ finishSeen
              /\ finals = 1
              /\ i = Len(emitted)
              /\ pc \in {"yield_final", "done"}
    /\ Len(emitted) = Len(TextFrames(hist)) + finals
    /\ finals = 0 =>
          \A i \in 1..Len(emitted) : Len(emitted[i].parts) = 1
                                     /\ emitted[i].parts[1].kind = "text"

\* C12 witness: two payloads with tool-call deltas were processed after a
\* text delta, a call with an id and a name is accumulated, no finish reason
\* was seen, and the only response emitted is that of the text delta.
C12_Witness ==
    /\ pc = "reading"
    /\ ~finishSeen
    /\ hist = <<"f1", "f3", "f5">>
    /\ CompleteCalls(accumulatedToolCalls) # <<>>
    /\ emitted = <<Response(<<TextPart(<<"a">>)>>, "null")>>

\* The responses of a call that runs alone to its end, by response body.
SoloResponses(body) ==
    IF body[2] = "f1"
    THEN <<Response(<<TextPart(<<"a">>)>>, "null"),
           Response(<<TextPart(<<"b">>)>>, "stop"),
           Response(<<>>, "stop")>>
    ELSE <<Response(<<FunctionCallPart(<<"j">>, <<"f">>, {})>>, "tool_calls")>>

\* C18: under every interleaving of the reads and pulls of two calls, each
\* call is where it would be had it run alone with the same reads and pulls:
\* same responses emitted, same suspension point, same accumulated text and
\* tool calls; and a call that has returned after its finish reason has
\* emitted the responses of its body.
C18_CallsIndependent ==
    \A k \in Calls :
        /\ req.calls[k].emitted = res.calls[k].emitted
        /\ req.calls[k].pc = res.calls[k].pc
        /\ req.calls[k].ac = res.calls[k].ac
        /\ req.calls[k].atc = res.calls[k].atc
        /\ (req.calls[k].pc = "done" /\ req.calls[k].finishSeen) =>
              \E body \in Bodies :
                  /\ body[2] = req.calls[k].hist[1]
                  /\ req.calls[k].emitted = SoloResponses(body)

\* C18 witness: both calls are in flight, each with the beginning of a line
\* in its buffer, the first has emitted a text response and the second has
\* accumulated a tool call.
C18_Witness ==
    /\ req.buffers[1] = <<"D", "f2">>
    /\ req.buffers[2] = <<"D">>
    /\ req.calls[1].pc = "reading"
    /\ req.calls[2].pc = "reading"
    /\ Len(req.calls[1].emitted) = 1
    /\ req.calls[2].atc # <<>>

(* --------------------- properties of generateContent ------------------ *)

\* C4: for every wire response with at least one choice, with or without
\* tool calls, the host response carries usage metadata whose counters equal
\* the wire response's prompt, completion and total token counts.
C4_UsageCopied ==
    (res.kind = "ok" /\ req.choices # <<>>) =>
        res.value.usageMetadata =
            {[promptTokenCount |-> req.usage.prompt_tokens,
              candidatesTokenCount |-> req.usage.completion_tokens,
              totalTokenCount |-> req.usage.total_tokens]}

\* The object a valid argument string decodes to.
Decoded(arguments) == IF arguments = <<"{", "m", "}">> THEN {"m"} ELSE {}

\* C17: a wire response whose first choice has n >= 1 tool calls, all with
\* valid JSON argument strings, converts to a host response whose parts are
\* one text part with the content if the content is non-empty, then n
\* function-call parts in the order of the tool calls, each with the call's
\* id, name and decoded arguments; a first choice without tool calls converts
\* to exactly one text part.
C17_ToolCallsBecomeFunctionCalls ==
    (res # Pending /\ req.ok /\ req.choices # <<>>) =>
        LET choice == req.choices[1]
            n == Len(choice.tool_calls)
        IN  /\ (/\ n >= 1
                /\ \A i \in 1..n : JSONValid(choice.tool_calls[i].arguments)) =>
                  /\ res.kind = "ok"
                  /\ LET parts == res.value.parts
                         text == IF choice.content # <<>> THEN 1 ELSE 0
                     IN  /\ Len(parts) = text + n
                         /\ text = 1 => parts[1] = TextPart(choice.content)
                         /\ \A i \in 1..n :
                               /\ parts[text + i].kind = "functionCall"
                               /\ parts[text + i].id = choice.tool_calls[i].id
                               /\ parts[text + i].name = choice.tool_calls[i].name
                               /\ parts[text + i].args =
                                     Decoded(choice.tool_calls[i].arguments)
            /\ n = 0 =>
                  /\ res.kind = "ok"
                  /\ Len(res.value.parts) = 1
                  /\ res.value.parts[1].kind = "text"

\* C17 witness: a converted response with empty content and two tool calls
\* with different ids and different valid argument strings.
C17_Witness ==
    /\ res.kind = "ok"
    /\ req.choices # <<>>
    /\ req.choices[1].content = Empty
    /\ Len(req.choices[1].tool_calls) = 2
    /\ req.choices[1].tool_calls[1].arguments = <<"{", "m", "}">>
    /\ req.choices[1].tool_calls[2].arguments = <<"{", "}">>
    /\ res.value.parts =
          <<FunctionCallPart(<<"i">>, <<"f">>, {"m"}),
            FunctionCallPart(<<"j">>, <<"f">>, {})>>

(* ----------------- properties of convertToOpenAIMessages -------------- *)

\* Every function-response part answers a function call: an earlier turn of
\* role model holds a function-call part with the same name and the same id
\* (both may lack an id).
Answered(contents) ==
    \A k \in 1..Len(contents) : \A n \in 1..Len(contents[k].parts) :
        IsFunctionResponse(contents[k].parts[n]) =>
            \E j \in 1..(k - 1) : \E i \in 1..Len(contents[j].parts) :
                /\ contents[j].role = "model"
                /\ IsFunctionCall(contents[j].parts[i])
                /\ contents[j].parts[i].id = contents[k].parts[n].id
                /\ contents[j].parts[i].name = contents[k].parts[n].name

\* C7: for the conversations in which every function response answers an
\* earlier function call, every tool-result message carries a tool_call_id
\* that is defined and is the id of a tool call of an assistant message
\* earlier in the output, also when the call's id was absent and synthesized.
C7_ToolResultCorrelates ==
    (res.kind = "ok" /\ Answered(req.contents)) =>
        LET messages == res.value.messages
        IN  \A k \in 1..Len(messages) :
                messages[k].role = "tool" =>
                    /\ messages[k].tool_call_id \notin {Undefined, Absent}
                    /\ \E j \in 1..(k - 1) :
                          /\ messages[j].role = "assistant"
                          /\ \E i \in 1..Len(messages[j].tool_calls) :
                                messages[j].tool_calls[i].id =
                                    messages[k].tool_call_id

\* The tool calls the claim C8 describes for the function-call parts fcs.
ExpectedToolCalls(fcs, now) ==
    [i \in 1..Len(fcs) |->
        [id |-> IF fcs[i].id = Undefined THEN SyntheticId(now, i - 1)
                ELSE fcs[i].id,
         type |-> "function",
         name |-> fcs[i].name,
         arguments |-> Stringify(fcs[i].args)]]

TextsOf(parts) ==
    LET textParts == SelectSeq(parts, IsText)
    IN  [i \in 1..Len(textParts) |-> textParts[i].text]

\* The strings texts with sep between each two neighbours.
RECURSIVE SepJoin(_, _)
SepJoin(texts, sep) ==
    IF texts = <<>> THEN <<>>
    ELSE IF Len(texts) = 1 THEN texts[1]
    ELSE SepJoin(Front(texts), sep) \o sep \o Last(texts)

HasFunctionCall(content) ==
    \E i \in 1..Len(content.parts) : IsFunctionCall(content.parts[i])

\* C8 (as claimed): a turn with a function-call part yields exactly one
\* message, of role assistant whatever the turn's role, with one tool call
\* per function-call part in order and with the concatenation of the turn's
\* text parts as content, null when that concatenation is empty.
C8_FunctionCallTurnIsAssistant ==
    res.kind = "ok" =>
        \A k \in 1..Len(req.contents) :
            HasFunctionCall(req.contents[k]) =>
                LET parts == req.contents[k].parts
                    text == JoinNL_concat(TextsOf(parts))
                IN  res.value.pushed[k] =
                        <<Message("assistant",
                                  IF text = <<>> THEN Null ELSE text,
                                  ExpectedToolCalls(
                                      SelectSeq(parts, IsFunctionCall), req.now),
                                  Absent)>>

\* C8 (amended): a turn with a function-call part yields exactly one message,
\* whose role is assistant for a turn of role model and the turn's own role
\* otherwise, with one tool call per function-call part in order (id of the
\* part, or synthesized from timestamp and index; arguments JSON-encoded) and
\* with the turn's text parts joined by newlines as content, null when the
\* joined text is empty.
C8_FunctionCallTurn ==
    res.kind = "ok" =>
        \A k \in 1..Len(req.contents) :
            HasFunctionCall(req.contents[k]) =>
                LET parts == req.contents[k].parts
                    text == SepJoin(TextsOf(parts), <<"NL">>)
                IN  res.value.pushed[k] =
                        <<Message(IF req.contents[k].role = "model"
                                  THEN "assistant" ELSE req.contents[k].role,
                                  IF text = <<>> THEN Null ELSE text,
                                  ExpectedToolCalls(
                                      SelectSeq(parts, IsFunctionCall), req.now),
                                  Absent)>>

\* C8 witness: a converted turn of role user with a function call that has
\* no id between two text parts.
C8_Witness ==
    /\ res.kind = "ok"
    /\ \E k \in 1..Len(req.contents) :
          /\ req.contents[k].role = "user"
          /\ req.contents[k].parts =
                <<TextPart(<<"a">>), FunctionCallPart(Undefined, <<"f">>, {}),
                  TextPart(<<"a">>)>>
          /\ Len(res.value.pushed[k]) = 1
          /\ res.value.pushed[k][1].content = <<"a", "NL", "a">>

\* A conversation of text turns: every turn has at least one part and only
\* text parts.
TextOnly(contents) ==
    \A k \in 1..Len(contents) :
        /\ contents[k].parts # <<>>
        /\ \A n \in 1..Len(contents[k].parts) : IsText(contents[k].parts[n])

\* C13: for a conversation of text turns the messages are one per turn, in
\* order: the i-th has the text parts of the i-th turn joined by newlines as
\* content, and the turn's role with model replaced by assistant.
C13_TextOnlyConversation ==
    (res.kind = "ok" /\ TextOnly(req.contents)) =>
        LET messages == res.value.messages
        IN  /\ Len(messages) = Len(req.contents)
            /\ \A i \in 1..Len(req.contents) :
                  /\ messages[i].content =
                        SepJoin(TextsOf(req.contents[i].parts), <<"NL">>)
                  /\ messages[i].role =
                        (IF req.contents[i].role = "model" THEN "assistant"
                         ELSE req.contents[i].role)

\* C13 witness: a converted conversation of a user turn with two text parts
\* and a model turn with one.
C13_Witness ==
    /\ res.kind = "ok"
    /\ req.contents =
          <<[role |-> "user", parts |-> <<TextPart(<<"a">>), TextPart(<<"a">>)>>],
            [role |-> "model", parts |-> <<TextPart(<<"a">>)>>]>>
    /\ Len(res.value.messages) = 2
    /\ res.value.messages[1].content = <<"a", "NL", "a">>
    /\ res.value.messages[2].role = "assistant"

\* C14: a turn with function-response parts and no function-call part yields
\* one message per function-response part, in order, of role tool, with the
\* JSON text of the part's response as content and the part's id as
\* tool_call_id; and no message of the output has both tool_calls and a
\* tool_call_id.
C14_FunctionResponseTurn ==
    res.kind = "ok" =>
        /\ \A k \in 1..Len(req.contents) :
              LET frs == SelectSeq(req.contents[k].parts, IsFunctionResponse)
              IN  (frs # <<>> /\ ~HasFunctionCall(req.contents[k])) =>
                      /\ Len(res.value.pushed[k]) = Len(frs)
                      /\ \A i \in 1..Len(frs) :
                            /\ res.value.pushed[k][i].role = "tool"
                            /\ res.value.pushed[k][i].content =
                                  Stringify(frs[i].args)
                            /\ res.value.pushed[k][i].tool_call_id = frs[i].id
        /\ \A j \in 1..Len(res.value.messages) :
              \/ res.value.messages[j].tool_calls = <<>>
              \/ res.value.messages[j].tool_call_id = Absent

\* C14 witness: a converted turn with two function responses, after a turn
\* with a function call: a message with tool calls, then two tool messages
\* in the order of the responses.
C14_Witness ==
    /\ res.kind = "ok"
    /\ Len(req.contents) = 2
    /\ HasFunctionCall(req.contents[1])
    /\ req.contents[2].parts =
          <<FunctionResponsePart(<<"i">>, <<"f">>, {"m"}),
            FunctionResponsePart(Undefined, <<"f">>, {})>>
    /\ Len(res.value.messages) = 3
    /\ res.value.messages[2] =
          Message("tool", <<"{", "m", "}">>, <<>>, <<"i">>)
    /\ res.value.messages[3] = Message("tool", <<"{", "}">>, <<>>, Undefined)

(* ------------------ properties of convertToOpenAITools ---------------- *)

IsLowerCase(str) == \A i \in 1..Len(str) : str[i] # "S"

\* The schema at address b is the schema at address a but for the case of
\* the letters of its `type` values, at every depth.
RECURSIVE SameButCase(_, _, _)
SameButCase(heap, a, b) ==
    /\ (heap[a].type = Undefined) = (heap[b].type = Undefined)
    /\ ToLowerCase(heap[a].type) = ToLowerCase(heap[b].type)
    /\ Len(heap[a].properties) = Len(heap[b].properties)
    /\ \A i \in 1..Len(heap[a].properties) :
          heap[a].properties[i].key = heap[b].properties[i].key
    /\ (heap[a].items = 0) = (heap[b].items = 0)
    /\ Len(heap[a].anyOf) = Len(heap[b].anyOf)
    /\ Len(heap[a].allOf) = Len(heap[b].allOf)
    /\ Len(heap[a].oneOf) = Len(heap[b].oneOf)
    /\ \A i \in 1..Len(Refs(heap[a])) :
          SameButCase(heap, Refs(heap[a])[i], Refs(heap[b])[i])

\* C15: the tools returned are one per declaration, and in the parameter
\* schema of each, every `type` value (of the root, of the schemas under
\* `properties`, `items`, `anyOf`, `allOf` and `oneOf`, at any depth) is in
\* lower case; the schema is otherwise that of the declaration.
C15_EveryTypeLowerCase ==
    res.kind = "ok" =>
        /\ Len(res.value) = Len(req.functionDeclarations)
        /\ \A k \in 1..Len(res.value) :
              /\ \A a \in Reach(req.heap, res.value[k].parameters) :
                    \/ req.heap[a].type = Undefined
                    \/ IsLowerCase(req.heap[a].type)
              /\ req.functionDeclarations[k].parameters # 0 =>
                    SameButCase(req.heap, req.functionDeclarations[k].parameters,
                                res.value[k].parameters)

\* C15 witness: a converted declaration whose schema has a mixed-case type
\* at the root, in its `items` and in a `oneOf` alternative of the items,
\* all three in lower case in the tool.
C15_Witness ==
    /\ res.kind = "ok"
    /\ \E k \in 1..Len(res.value) :
          LET a == req.functionDeclarations[k].parameters
              b == res.value[k].parameters
          IN  /\ a # 0
              /\ req.heap[a].type = <<"S", "t">>
              /\ req.heap[a].items # 0
              /\ req.heap[req.heap[a].items].type = <<"S", "t">>
              /\ req.heap[req.heap[a].items].oneOf # <<>>
              /\ req.heap[req.heap[req.heap[a].items].oneOf[1]].type = <<"S", "t">>
              /\ req.heap[b].type = <<"s", "t">>
              /\ req.heap[req.heap[b].items].type = <<"s", "t">>
              /\ req.heap[req.heap[req.heap[b].items].oneOf[1]].type = <<"s", "t">>

\* C16: the conversion changes no object of the caller: the declarations
\* (name, description, parameters) and every field of every schema object
\* the caller built, the case of the `type` values included, are after the
\* call what they were before it.
C16_DeclarationsUnchanged ==
    [][(res = Pending /\ res' # Pending) =>
          /\ req'.functionDeclarations = req.functionDeclarations
          /\ \A a \in DOMAIN req.heap : req'.heap[a] = req.heap[a]]_vars

\* C16 witness: after the conversion a declaration of the caller still has
\* its mixed-case types, at the root and in a property, while the tool made
\* from it has them in lower case.
C16_Witness ==
    /\ res.kind = "ok"
    /\ \E k \in 1..Len(res.value) :
          LET a == req.functionDeclarations[k].parameters
              b == res.value[k].parameters
          IN  /\ a # 0
              /\ a # b
              /\ req.heap[a].type = <<"S", "t">>
              /\ req.heap[a].properties # <<>>
              /\ req.heap[req.heap[a].properties[1].ref].type = <<"S", "t">>
              /\ req.heap[b].type = <<"s", "t">>
              /\ req.heap[req.heap[b].properties[1].ref].type = <<"s", "t">>

(* ------------------------ properties of countTokens ------------------- *)

\* The length of the contents of the messages joined with single spaces, a
\* null content counting as the empty string.
RECURSIVE JoinedLength(_)
JoinedLength(messages) ==
    IF messages = <<>> THEN 0
    ELSE (IF Last(messages).content = Null THEN 0
          ELSE Len(Last(messages).content))
         + (IF Len(messages) > 1 THEN 1 ELSE 0)
         + JoinedLength(Front(messages))

\* C19: totalTokens is the least integer not below L / 4, for L the length of
\* the contents of the converted messages joined with single spaces.
C19_TokensAreCeilOfQuarter ==
    res.kind = "tokens" =>
        LET L == JoinedLength(ConvertToOpenAIMessages(req.contents, req.now))
        IN  /\ 4 * res.totalTokens >= L
            /\ 4 * (res.totalTokens - 1) < L

\* C19 witness: a conversation whose messages, one of them with null
\* content, join to a text of seven characters, counted as two tokens.
C19_Witness ==
    /\ res.kind = "tokens"
    /\ res.totalTokens = 2
    /\ LET messages == ConvertToOpenAIMessages(req.contents, req.now)
       IN  /\ \E i \in 1..Len(messages) : messages[i].content = Null
           /\ JoinedLength(messages) = 7

(* ------------- properties of validateAuthMethod and AuthDialog -------- *)

\* The variables that Azure OpenAI requires: the key and the endpoint.
AzureRequired == <<"AZURE_OPENAI_API_KEY", "AZURE_OPENAI_ENDPOINT">>

FencePositions(t) == SelectSeq([i \in 1..Len(t) |-> i], LAMBDA i : t[i] = "F")

\* The interior of the fenced block of t whose fences are at a and b: what
\* is between them after an optional tag, without the surrounding spaces.
Interior(t, a, b) ==
    TrimText(SubSeq(t, IF a + 1 < b /\ t[a + 1] = "J" THEN a + 2 ELSE a + 1,
                    b - 1))

\* The interiors of the fenced blocks of t: the fences pair up in order.
Interiors(t) ==
    LET f == FencePositions(t)
    IN  {Interior(t, f[2 * n - 1], f[2 * n]) : n \in 1..(Len(f) \div 2)}

\* C21: when the fences of the trimmed text pair up into one or more fenced
\* blocks, the text extracted is the interior of one of the blocks, whatever
\* bare JSON the text holds elsewhere; for a text that is one block from end
\* to end it is the interior of that block.
C21_FencedBlockInterior ==
    (res.kind = "json") =>
        LET t == TrimText(req.text)
            f == FencePositions(t)
        IN  (Len(f) >= 2 /\ Len(f) % 2 = 0) => res.extracted \in Interiors(t)

\* In a scan of t that starts at i: whether the symbol at k follows a
\* backslash that is not itself escaped.
RECURSIVE Escaped(_, _, _)
Escaped(t, i, k) == k > i /\ t[k - 1] = "BS" /\ ~Escaped(t, i, k - 1)

\* Whether the symbol at k lies in a string literal opened at or after i: an
\* odd number of unescaped quotes precede it.
InLiteral(t, i, k) ==
    Cardinality({q \in i..(k - 1) : t[q] = "Q" /\ ~Escaped(t, i, q)}) % 2 = 1

\* The bracket depth after the symbol at k, counting the brackets of the kind
\* of the one at i that are outside string literals and not escaped.
Depth(t, i, k) ==
    LET live == {q \in i..k : ~Escaped(t, i, q) /\ ~InLiteral(t, i, q)}
        close == IF t[i] = "{" THEN "}" ELSE "]"
    IN  Cardinality({q \in live : t[q] = t[i]})
        - Cardinality({q \in live : t[q] = close})

\* The substrings of t from a bracket to its matching close that are JSON,
\* as pairs of positions.
JsonSubstrings(t) ==
    {p \in (1..Len(t)) \X (1..Len(t)) :
        /\ t[p[1]] \in {"{", "["}
        /\ p[1] < p[2]
        /\ Depth(t, p[1], p[2]) = 0
        /\ \A k \in p[1]..(p[2] - 1) : Depth(t, p[1], k) > 0
        /\ JsonTextValid(SubSeq(t, p[1], p[2]))}

\* C22: for a text without fences, the text extracted is a longest of the
\* substrings that run from a bracket to its matching close and are JSON,
\* and JSON.parse of it returns; without such a substring it is the trimmed
\* text, and parseJsonFromText throws exactly when that is no JSON.
C22_LongestJsonSubstring ==
    (res.kind = "json") =>
        LET t == TrimText(req.text)
            subs == JsonSubstrings(t)
        IN  IF subs = {}
            THEN /\ res.extracted = t
                 /\ res.throws <=> ~JsonTextValid(t)
            ELSE /\ \E p \in subs :
                       /\ res.extracted = SubSeq(t, p[1], p[2])
                       /\ \A q \in subs : q[2] - q[1] <= p[2] - p[1]
                 /\ ~res.throws

\* C22 witness: from x[[]], whose brackets give the substrings [[]] and [],
\* both JSON, the longer is extracted and parses.
C22_Witness ==
    /\ res.kind = "json"
    /\ req.text = <<"x", "[", "[", "]", "]">>
    /\ res.extracted = <<"[", "[", "]", "]">>
    /\ Cardinality(JsonSubstrings(req.text)) = 2
    /\ ~res.throws

(* ----------------------- properties of split reads -------------------- *)

\* C23: however the body is split across reads, the responses emitted so
\* far are the first of those that a single read of the whole body gives,
\* and once the generator is done they are all of them, with the same
\* accumulated text and tool calls.
C23_SplitsDoNotMatter ==
    /\ IsPrefix(req.call.emitted, res.emitted)
    /\ req.call.pc = "done" =>
           /\ req.call.emitted = res.emitted
           /\ req.call.ac = res.ac
           /\ req.call.atc = res.atc

\* C23 witness: a read ended between the prefix and the payload of the
\* second frame; the prefix is held in the buffer, the first frame has been
\* processed, and the single read gives two responses more.
C23_Witness ==
    /\ req.buffer = <<"D">>
    /\ req.call.srv = <<"f2", "NL">>
    /\ Len(req.call.emitted) = 1
    /\ Len(res.emitted) = 3

(* --------------- properties of the path to the adapter ---------------- *)

\* C24: in every environment in which validateAuthMethod accepts Azure
\* OpenAI, createContentGeneratorConfig and createContentGenerator make the
\* adapter without error, with the key of the environment as its API key and
\* the base URL of the environment, without a slash at its end, as its
\* endpoint.
C24_AcceptedEnvironmentConstructs ==
    res.stage = "made" =>
        LET outcome == res.outcome[1]
            urls == {req.env[v] : v \in {"AZURE_OPENAI_BASE_URL",
                                          "AZURE_OPENAI_ENDPOINT"}}
        IN  /\ outcome.kind = "generator"
            /\ outcome.apiKey = req.env["AZURE_OPENAI_API_KEY"]
            /\ \E url \in urls :
                   /\ Truthy(url)
                   /\ outcome.endpoint \in {url, Front(url)}
                   /\ Last(outcome.endpoint) # "/"

(* ------------------ properties of the end of a stream ----------------- *)

\* What follows the last newline of a body.
TrailingLine(body) ==
    LET ends == {i \in 1..Len(body) : body[i] = "NL"}
    IN  IF ends = {} THEN body
        ELSE SubSeq(body, (CHOOSE i \in ends : \A j \in ends : j <= i) + 1,
                    Len(body))

\* The payloads with a choice of the lines of a body that end with a newline.
CompleteFrames(body) ==
    LET at == SelectSeq([i \in 1..Len(body) |-> i],
                        LAMBDA i : /\ body[i] = "D"
                                   /\ i + 2 <= Len(body)
                                   /\ body[i + 1] \in FrameNames
                                   /\ body[i + 2] = "NL"
                                   /\ Frame(body[i + 1]).hasChoice)
    IN  [k \in 1..Len(at) |-> body[at[k] + 1]]

\* C25: when the generator is done and no frame it processed carried a
\* finish reason, it has emitted no final response: every response is an
\* incremental one of text parts without a finish reason, so no accumulated
\* tool call was delivered; and the line without a newline at the end of
\* the body is still in the buffer, not among the frames processed.
C25_NoFlushAtEndOfStream ==
    (/\ req.call.pc = "done"
     /\ \A i \in 1..Len(req.call.hist) :
            Frame(req.call.hist[i]).finish_reason = "null")
    => /\ req.call.finals = 0
       /\ \A i \in 1..Len(req.call.emitted) :
              /\ req.call.emitted[i].finishReason = "null"
              /\ \A j \in 1..Len(req.call.emitted[i].parts) :
                     req.call.emitted[i].parts[j].kind = "text"
       /\ req.buffer = TrailingLine(req.body)
       /\ req.call.hist = CompleteFrames(req.body)

\* C25 witness: the stream ended after a tool-call delta and a finish frame
\* that lacks its newline: the tool call is accumulated, the finish frame is
\* in the buffer, nothing was emitted.
C25_Witness ==
    /\ req.call.pc = "done"
    /\ req.body = <<"D", "f3", "NL", "D", "f6">>
    /\ req.call.atc # <<>>
    /\ req.buffer = <<"D", "f6">>
    /\ req.call.emitted = <<>>

(* ------------------ properties of the delivered text ------------------ *)

\* The texts of the text parts of the responses rs, in order, concatenated.
RECURSIVE PartsText(_)
PartsText(parts) ==
    IF parts = <<>> THEN <<>>
    ELSE (IF Head(parts).kind = "text" THEN Head(parts).text ELSE <<>>)
         \o PartsText(Tail(parts))

RECURSIVE EmittedText(_)
EmittedText(rs) ==
    IF rs = <<>> THEN <<>>
    ELSE PartsText(Head(rs).parts) \o EmittedText(Tail(rs))

\* The text deltas of the processed frames fs, in order, concatenated.
RECURSIVE DeltaText(_)
DeltaText(fs) ==
    IF fs = <<>> THEN <<>>
    ELSE Frame(Head(fs)).content \o DeltaText(Tail(fs))

\* C26: the text parts of the responses emitted for a stream, concatenated
\* in the order of emission, are the text deltas of the frames processed,
\* concatenated: each delta is delivered once, also when the stream
\* carries tool calls.
C26_TextDeliveredOnce ==
    EmittedText(req.call.emitted) = DeltaText(req.call.hist)

(* --------------------- properties of the retry ------------------------ *)

====
